---- MODULE Spec2Model ----
(***************************************************************************)
(* Verification model of the ferrous-ci-cd control-plane core.             *)
(*                                                                         *)
(* Entities (Agent, Build, Pipeline, Job, Project, User) and the           *)
(* PipelineConfig value are modelled as records and their methods as       *)
(* operators that return the outcome and the entity after the call.  The   *)
(* in-memory repositories are maps keyed by id, the event publisher is a   *)
(* log, and each service call is a task that moves through the lock-       *)
(* protected repository and publisher accesses of its method one at a      *)
(* time.                                                                   *)
(*                                                                         *)
(* Conventions                                                             *)
(*   Option<T>      None is {} and Some(x) is {x}.                         *)
(*   crate::Result  [err |-> "Ok" or the Error variant, v |-> the entity   *)
(*                  after the call].  The variants are the ones of         *)
(*                  src/error.rs: "Build" (illegal build or job            *)
(*                  transition, the specification's InvalidState),         *)
(*                  "Agent" (admission or release refused, the             *)
(*                  specification's AgentBusy), "NotFound", "Conflict",    *)
(*                  "Validation", and "Repository" and                     *)
(*                  "ExternalService" for a failing repository and a       *)
(*                  failing publisher.                                     *)
(*   Utc::now()     a reading of the clock `now`, which never goes back;   *)
(*                  the clock counts ticks, TicksPerSecond to the second.  *)
(*   DomainEvent    a record; `uid` is the identity of the event object    *)
(*                  (two events built by two calls are two events, also    *)
(*                  when they carry the same fields).                      *)
(***************************************************************************)
EXTENDS Integers, Sequences, FiniteSets, TLC

\* ------------------------------------------------------------------ bounds
\* largest max_concurrent_jobs an agent is constructed with
MaxJobs == 2
\* the clock runs from 0 to MaxTime, in ticks
MaxTime == 2
\* clock ticks in one second
TicksPerSecond == 2
\* longest event buffer of one entity in the entity-level specifications
MaxEvents == 4
\* number of service calls issued in one behaviour
MaxCalls == 4
\* longest stage list, job list of a stage and trigger list of a PipelineConfig
MaxStages == 2
MaxStageJobs == 2
MaxTriggers == 1
\* largest version a Pipeline driven directly is taken to
MaxVersion == 2
\* take_events() calls made on one entity
MaxTakes == 3
\* largest retry budget of a Job
MaxRetry == 1
\* pairs in one find_by_labels request
MaxPairs == 2
\* events in one publish_batch call made directly
MaxBatch == 2

\* the ids AgentId::new() and BuildId::new() hand out, in this order
AgentIdSeq == <<"a1", "a2">>
BuildIdSeq == <<"b1", "b2", "b3">>
AgentIds == {AgentIdSeq[i] : i \in DOMAIN AgentIdSeq}
BuildIds == {BuildIdSeq[i] : i \in DOMAIN BuildIdSeq}
PipelineIdSeq == <<"p1", "p2">>
PipelineIds == {PipelineIdSeq[i] : i \in DOMAIN PipelineIdSeq}
ProjectIds == {"proj1"}
PipelineNames == {"", "web"}
AgentNames == {"n1", "n2"}
Tasks == {"t1", "t2"}

VARIABLES
    now,        \* the wall clock read by Utc::now()
    evseq,      \* number of DomainEvent objects constructed so far
    agent,      \* one Agent entity (entity-level specification)
    agentCall,  \* the last method called on `agent` and its result
    build,      \* one Build entity (entity-level specification)
    buildCall,  \* the last method called on `build` and its result
    builds,     \* InMemoryBuildRepository.builds : id -> Build
    agents,     \* InMemoryAgentRepository.agents : id -> Agent
    published,  \* InMemoryEventPublisher.events
    task,       \* per task: the service call in progress and its locals
    calls,      \* number of service calls issued so far
    assigned,   \* per agent: successful assign_job returns minus successful release_job returns
    config,     \* one PipelineConfig value
    configCall, \* the last method called on `config` and its result
    pipeline,   \* one Pipeline entity (entity-level specification)
    pipelineCall, \* the last method called on `pipeline`, its argument and result
    job,        \* one Job entity (entity-level specification)
    jobCall,    \* the last method called on `job`, its argument and result
    project,    \* one Project entity (entity-level specification)
    projectCall, \* the last method called on `project` and its result
    user,       \* one User entity (entity-level specification)
    userCall,   \* the last method called on `user` and its result
    runStage,   \* one runtime Stage entity (entity-level specification)
    stageCall,  \* the last method called on `runStage` and its result
    workspace,  \* one Workspace entity (entity-level specification)
    workspaceCall, \* the last method called on `workspace`, its argument and result
    ident,      \* one identifier value: its kind and its Uuid
    identCall,  \* the last identifier operation, the string it rendered and its result
    taken,      \* the aggregate whose buffer is drained, and what each of its
                \* take_events() calls returned, in call order
    pipelines,  \* InMemoryPipelineRepository.pipelines : id -> Pipeline
    minted      \* the ids XxxId::new() has handed out

agentVars == <<agent, agentCall>>
buildVars == <<build, buildCall>>
configVars == <<config, configCall>>
pipelineVars == <<pipeline, pipelineCall>>
jobVars == <<job, jobCall>>
projectVars == <<project, projectCall>>
userVars == <<user, userCall>>
stageVars == <<runStage, stageCall>>
workspaceVars == <<workspace, workspaceCall>>
identVars == <<ident, identCall>>
entityVars == <<agentVars, buildVars, configVars, pipelineVars, jobVars, projectVars, userVars,
                stageVars, workspaceVars, identVars, taken>>
pipelineStore == <<pipelines, minted>>
serviceVars == <<builds, agents, pipelineStore, published, task, calls, assigned>>

vars == <<now, evseq, entityVars, serviceVars>>

None == {}
Some(x) == {x}

Ok(v) == [err |-> "Ok", v |-> v]
Err(kind, v) == [err |-> kind, v |-> v]

\* readings the clock can give from now on
Clock == now..MaxTime

\* ------------------------------------------------------------------ Agent
AgentStatus == {"Online", "Busy", "Offline", "Maintenance", "Disconnected"}

Agent_new(id, name, max_concurrent_jobs, t, uid) ==
    [id |-> id,
     name |-> name,
     status |-> "Offline",
     max_concurrent_jobs |-> max_concurrent_jobs,
     current_jobs |-> 0,
     last_heartbeat |-> t,
     ip_address |-> None,
     labels |-> << >>,
     updated_at |-> t,
     events |-> <<[type |-> "AgentRegistered", agent_id |-> id, name |-> name,
                   at |-> t, uid |-> uid]>>]

Agent_can_accept_job(a) ==
    a.status = "Online" /\ a.current_jobs < a.max_concurrent_jobs

\* an Agent::register that announces the agent again
Agent_register_emits(a, ip, t) ==
    Ok([a EXCEPT !.status = "Online",
                 !.ip_address = Some(ip),
                 !.last_heartbeat = t,
                 !.updated_at = t,
                 !.events = Append(@, [type |-> "AgentRegistered", agent_id |-> a.id,
                                       name |-> a.name, at |-> t, uid |-> 0])])

Agent_register(a, ip, t) ==
    Ok([a EXCEPT !.status = "Online",
                 !.ip_address = Some(ip),
                 !.last_heartbeat = t,
                 !.updated_at = t])

Agent_heartbeat(a, t) ==
    Ok([a EXCEPT !.last_heartbeat = t, !.updated_at = t])

Agent_disconnect(a, t, uid) ==
    [a EXCEPT !.status = "Offline",
              !.updated_at = t,
              !.events = Append(@, [type |-> "AgentDisconnected", agent_id |-> a.id,
                                    at |-> t, uid |-> uid])]

Agent_set_maintenance(a, t) ==
    [a EXCEPT !.status = "Maintenance", !.updated_at = t]

Agent_assign_job_unchecked(a, t) ==
    IF a.status # "Online"
    THEN Err("Agent", a)
    ELSE Ok([a EXCEPT !.current_jobs = @ + 1,
                      !.status = IF a.current_jobs + 1 >= a.max_concurrent_jobs
                                 THEN "Busy" ELSE "Online",
                      !.updated_at = t])

Agent_assign_job_late_busy(a, t) ==
    IF ~Agent_can_accept_job(a)
    THEN Err("Agent", a)
    ELSE Ok([a EXCEPT !.current_jobs = @ + 1,
                      !.status = IF a.current_jobs + 1 > a.max_concurrent_jobs
                                 THEN "Busy" ELSE "Online",
                      !.updated_at = t])

\* an assign_job that only asks whether the agent is connected
Agent_assign_job_if_connected(a, t) ==
    IF a.status \notin {"Online", "Busy"}
    THEN Err("Agent", a)
    ELSE Ok([a EXCEPT !.current_jobs = @ + 1,
                      !.status = IF a.current_jobs + 1 >= a.max_concurrent_jobs
                                 THEN "Busy" ELSE "Online",
                      !.updated_at = t])

Agent_assign_job(a, t) ==
    IF ~Agent_can_accept_job(a)
    THEN Err("Agent", a)
    ELSE Ok([a EXCEPT !.current_jobs = @ + 1,
                      !.status = IF a.current_jobs + 1 >= a.max_concurrent_jobs
                                 THEN "Busy" ELSE "Online",
                      !.updated_at = t])

Agent_release_job_keeps_status(a, t) ==
    IF a.current_jobs = 0
    THEN Err("Agent", a)
    ELSE Ok([a EXCEPT !.current_jobs = @ - 1, !.updated_at = t])

Agent_release_job_saturating(a, t) ==
    IF a.current_jobs = 0
    THEN Ok([a EXCEPT !.status = "Online", !.updated_at = t])
    ELSE Ok([a EXCEPT !.current_jobs = @ - 1,
                      !.status = "Online",
                      !.updated_at = t])

Agent_release_job(a, t) ==
    IF a.current_jobs = 0
    THEN Err("Agent", a)
    ELSE Ok([a EXCEPT !.current_jobs = @ - 1,
                      !.status = "Online",
                      !.updated_at = t])

\* chrono's Duration::num_seconds: the whole seconds in d clock ticks,
\* rounded towards zero
num_seconds(d) ==
    IF d >= 0 THEN d \div TicksPerSecond ELSE 0 - ((0 - d) \div TicksPerSecond)

\* Agent::is_dead with >= for >
Agent_is_dead_at_timeout(a, timeout_seconds, t) ==
    num_seconds(t - a.last_heartbeat) >= timeout_seconds

Agent_is_dead(a, timeout_seconds, t) ==
    num_seconds(t - a.last_heartbeat) > timeout_seconds

\* HashMap::insert on the label map
Agent_add_label(a, key, value, t) ==
    [a EXCEPT !.labels = [k \in (DOMAIN @) \cup {key} |-> IF k = key THEN value ELSE @[k]],
              !.updated_at = t]

\* HashMap::remove on the label map
Agent_remove_label(a, key, t) ==
    [a EXCEPT !.labels = [k \in (DOMAIN @) \ {key} |-> @[k]],
              !.updated_at = t]

\* a has_label that looks at the key only
Agent_has_label_any_value(a, key, value) == key \in DOMAIN a.labels

\* self.labels.get(key).map_or(false, |v| v == value)
Agent_has_label(a, key, value) ==
    LET got == IF key \in DOMAIN a.labels THEN Some(a.labels[key]) ELSE None
    IN  IF got = None THEN FALSE ELSE \A v \in got : v = value

\* ------------------------------------------------------------------ Build
BuildStatus == {"Pending", "Running", "Success", "Failed", "Cancelled"}

BuildStatus_is_terminal(s) == s \in {"Success", "Failed", "Cancelled"}

Build_new(id, pipeline_id, number, t, uid) ==
    [id |-> id,
     pipeline_id |-> pipeline_id,
     number |-> number,
     status |-> "Pending",
     agent_id |-> None,
     started_at |-> None,
     completed_at |-> None,
     error_message |-> None,
     updated_at |-> t,
     events |-> <<[type |-> "BuildCreated", build_id |-> id, pipeline_id |-> pipeline_id,
                   number |-> number, at |-> t, uid |-> uid]>>]

\* a Build::duration that runs from the start to the last update
Build_duration_to_last_update(b) ==
    IF b.started_at # None
    THEN Some(b.updated_at - (CHOOSE s \in b.started_at : TRUE))
    ELSE None

Build_duration(b) ==
    IF b.started_at # None /\ b.completed_at # None
    THEN Some((CHOOSE e \in b.completed_at : TRUE) - (CHOOSE s \in b.started_at : TRUE))
    ELSE None

Build_start_from_any(b, agent_id, t, uid) ==
    IF BuildStatus_is_terminal(b.status)
    THEN Err("Build", b)
    ELSE Ok([b EXCEPT !.status = "Running",
                      !.agent_id = Some(agent_id),
                      !.started_at = Some(t),
                      !.updated_at = t,
                      !.events = Append(@, [type |-> "BuildStarted", build_id |-> b.id,
                                            agent_id |-> agent_id, at |-> t, uid |-> uid])])

Build_start(b, agent_id, t, uid) ==
    IF b.status # "Pending"
    THEN Err("Build", b)
    ELSE Ok([b EXCEPT !.status = "Running",
                      !.agent_id = Some(agent_id),
                      !.started_at = Some(t),
                      !.updated_at = t,
                      !.events = Append(@, [type |-> "BuildStarted", build_id |-> b.id,
                                            agent_id |-> agent_id, at |-> t, uid |-> uid])])

Build_succeed(b, t, uid) ==
    IF b.status # "Running"
    THEN Err("Build", b)
    ELSE Ok([b EXCEPT !.status = "Success",
                      !.completed_at = Some(t),
                      !.updated_at = t,
                      !.events = Append(@, [type |-> "BuildCompleted", build_id |-> b.id,
                                            status |-> "Success", at |-> t, uid |-> uid])])

Build_fail(b, error, t, uid) ==
    IF b.status # "Running"
    THEN Err("Build", b)
    ELSE Ok([b EXCEPT !.status = "Failed",
                      !.error_message = Some(error),
                      !.completed_at = Some(t),
                      !.updated_at = t,
                      !.events = Append(@, [type |-> "BuildCompleted", build_id |-> b.id,
                                            status |-> "Failed", at |-> t, uid |-> uid])])

Build_cancel(b, t, uid) ==
    IF b.status = "Success" \/ b.status = "Failed"
    THEN Err("Build", b)
    ELSE Ok([b EXCEPT !.status = "Cancelled",
                      !.completed_at = Some(t),
                      !.updated_at = t,
                      !.events = Append(@, [type |-> "BuildCancelled", build_id |-> b.id,
                                            at |-> t, uid |-> uid])])

\* a take_events that hands out a copy of the buffer and leaves the buffer as it is
take_events_keeps_buffer(e) == [events |-> e.events, v |-> e]

\* std::mem::take(&mut self.events): the taken events and the entity left behind
take_events(e) == [events |-> e.events, v |-> [e EXCEPT !.events = <<>>]]

\* ---------------------------------------------------------- PipelineConfig
\* crate::Result<()> of a validation: Ok(()), or Error::Validation with its message
Valid == [err |-> "Ok", msg |-> "none"]
Invalid(msg) == [err |-> "Validation", msg |-> msg]

\* pipeline_config::Job, Stage and PipelineConfig: the fields validate() reads
ConfigJob(name, image, commands) == [name |-> name, image |-> image, commands |-> commands]
ConfigStage(name, jobs) == [name |-> name, jobs |-> jobs]
PipelineConfig_new(stages, triggers) ==
    [version |-> "1.0", stages |-> stages, triggers |-> triggers]

\* `for x in xs { x.validate()?; }`: the error of the first element that has one
FirstError(rs) ==
    LET bad == {i \in DOMAIN rs : rs[i].err # "Ok"}
    IN  IF bad = {} THEN Valid ELSE rs[CHOOSE i \in bad : \A k \in bad : i <= k]

\* Job::validate that takes an image for no substitute of a command
Job_validate_commands_only(j) ==
    IF j.name = ""
    THEN Invalid("Job name cannot be empty")
    ELSE IF j.commands = << >>
    THEN Invalid("Job must have at least one command or an image")
    ELSE Valid

Job_validate(j) ==
    IF j.name = ""
    THEN Invalid("Job name cannot be empty")
    ELSE IF j.commands = << >> /\ j.image = None
    THEN Invalid("Job must have at least one command or an image")
    ELSE Valid

Stage_validate(st) ==
    IF st.name = ""
    THEN Invalid("Stage name cannot be empty")
    ELSE IF st.jobs = << >>
    THEN Invalid("Stage must have at least one job")
    ELSE FirstError([i \in DOMAIN st.jobs |-> Job_validate(st.jobs[i])])

PipelineConfig_validate(c) ==
    IF c.version = ""
    THEN Invalid("Pipeline version cannot be empty")
    ELSE IF c.stages = << >>
    THEN Invalid("Pipeline must have at least one stage")
    ELSE LET stages == FirstError([i \in DOMAIN c.stages |-> Stage_validate(c.stages[i])])
         IN  IF stages.err # "Ok"
             THEN stages
             ELSE IF c.triggers = << >>
             THEN Invalid("Pipeline must have at least one trigger")
             ELSE Valid

\* --------------------------------------------------------------- Pipeline
Pipeline_new(id, project_id, name, cfg, t, uid) ==
    [id |-> id,
     project_id |-> project_id,
     name |-> name,
     config |-> cfg,
     enabled |-> TRUE,
     version |-> 1,
     tags |-> << >>,
     environment |-> << >>,
     created_at |-> t,
     updated_at |-> t,
     events |-> <<[type |-> "PipelineCreated", pipeline_id |-> id, name |-> name,
                   at |-> t, uid |-> uid]>>]

\* Pipeline::update_config that validates after it has assigned
Pipeline_update_config_validates_late(p, cfg, t, uid) ==
    LET r == PipelineConfig_validate(cfg)
        q == [p EXCEPT !.config = cfg, !.version = @ + 1, !.updated_at = t]
    IN  IF r.err # "Ok"
        THEN Err(r.err, q)
        ELSE Ok([q EXCEPT !.events =
                    Append(@, [type |-> "PipelineConfigUpdated", pipeline_id |-> p.id,
                               old_version |-> q.version - 1, new_version |-> q.version,
                               at |-> t, uid |-> uid])])

\* Pipeline::update_config whose event is built before the version is bumped
Pipeline_update_config_stale_event(p, cfg, t, uid) ==
    LET r == PipelineConfig_validate(cfg) IN
    IF r.err # "Ok"
    THEN Err(r.err, p)
    ELSE Ok([p EXCEPT !.config = cfg, !.version = @ + 1, !.updated_at = t,
                      !.events =
                         Append(@, [type |-> "PipelineConfigUpdated", pipeline_id |-> p.id,
                                    old_version |-> p.version - 1, new_version |-> p.version,
                                    at |-> t, uid |-> uid])])

Pipeline_update_config(p, cfg, t, uid) ==
    LET r == PipelineConfig_validate(cfg) IN
    IF r.err # "Ok"
    THEN Err(r.err, p)
    ELSE LET q == [p EXCEPT !.config = cfg, !.version = @ + 1, !.updated_at = t]
         IN  Ok([q EXCEPT !.events =
                    Append(@, [type |-> "PipelineConfigUpdated", pipeline_id |-> p.id,
                               old_version |-> q.version - 1, new_version |-> q.version,
                               at |-> t, uid |-> uid])])

Pipeline_enable(p, t, uid) ==
    IF ~p.enabled
    THEN [p EXCEPT !.enabled = TRUE,
                   !.updated_at = t,
                   !.events = Append(@, [type |-> "PipelineEnabled", pipeline_id |-> p.id,
                                         at |-> t, uid |-> uid])]
    ELSE p

\* a disable that pushes its event whether or not the flag changed
Pipeline_disable_always_emits(p, t, uid) ==
    [p EXCEPT !.enabled = FALSE,
              !.updated_at = t,
              !.events = Append(@, [type |-> "PipelineDisabled", pipeline_id |-> p.id,
                                    at |-> t, uid |-> uid])]

Pipeline_disable(p, t, uid) ==
    IF p.enabled
    THEN [p EXCEPT !.enabled = FALSE,
                   !.updated_at = t,
                   !.events = Append(@, [type |-> "PipelineDisabled", pipeline_id |-> p.id,
                                         at |-> t, uid |-> uid])]
    ELSE p

\* Vec::contains
Has(s, x) == \E i \in 1..Len(s) : s[i] = x

Pipeline_add_tag(p, tag, t) ==
    IF ~Has(p.tags, tag)
    THEN [p EXCEPT !.tags = Append(@, tag), !.updated_at = t]
    ELSE p

\* Vec::retain(|t| t != tag)
Pipeline_remove_tag(p, tag, t) ==
    [p EXCEPT !.tags = SelectSeq(@, LAMBDA x : x # tag), !.updated_at = t]

\* HashMap::insert
Pipeline_set_environment_variable(p, key, value, t) ==
    [p EXCEPT !.environment = [k \in (DOMAIN @) \cup {key} |->
                                  IF k = key THEN value ELSE @[k]],
              !.updated_at = t]

\* HashMap::remove
Pipeline_remove_environment_variable(p, key, t) ==
    [p EXCEPT !.environment = [k \in (DOMAIN @) \ {key} |-> @[k]],
              !.updated_at = t]

\* Pipeline::validate: the name, then the configuration
Pipeline_validate(p) ==
    IF p.name = ""
    THEN Invalid("Pipeline name cannot be empty")
    ELSE IF Len(p.name) > 255
    THEN Invalid("Pipeline name is too long")
    ELSE PipelineConfig_validate(p.config)

\* -------------------------------------------------------------------- Job
JobStatus == {"Pending", "Queued", "Running", "Success", "Failed", "Cancelled", "Skipped"}

Job_new(id, build_id, name, stage, t) ==
    [id |-> id,
     build_id |-> build_id,
     name |-> name,
     stage |-> stage,
     status |-> "Pending",
     agent_id |-> None,
     retry |-> 0,
     attempt |-> 0,
     logs |-> "",
     started_at |-> None,
     completed_at |-> None,
     exit_code |-> None,
     created_at |-> t,
     updated_at |-> t]

Job_queue(j, t) ==
    IF j.status # "Pending"
    THEN Err("Build", j)
    ELSE Ok([j EXCEPT !.status = "Queued", !.updated_at = t])

\* Job::start that leaves the attempt counter alone
Job_start_keeps_attempt(j, agent_id, t) ==
    IF j.status # "Queued"
    THEN Err("Build", j)
    ELSE Ok([j EXCEPT !.status = "Running",
                      !.agent_id = Some(agent_id),
                      !.started_at = Some(t),
                      !.updated_at = t])

Job_start(j, agent_id, t) ==
    IF j.status # "Queued"
    THEN Err("Build", j)
    ELSE Ok([j EXCEPT !.status = "Running",
                      !.agent_id = Some(agent_id),
                      !.started_at = Some(t),
                      !.attempt = @ + 1,
                      !.updated_at = t])

Job_succeed(j, exit_code, t) ==
    IF j.status # "Running"
    THEN Err("Build", j)
    ELSE Ok([j EXCEPT !.status = "Success",
                      !.exit_code = Some(exit_code),
                      !.completed_at = Some(t),
                      !.updated_at = t])

Job_fail(j, exit_code, t) ==
    IF j.status # "Running"
    THEN Err("Build", j)
    ELSE Ok([j EXCEPT !.status = "Failed",
                      !.exit_code = Some(exit_code),
                      !.completed_at = Some(t),
                      !.updated_at = t])

Job_cancel(j, t) ==
    IF j.status = "Success" \/ j.status = "Failed"
    THEN Err("Build", j)
    ELSE Ok([j EXCEPT !.status = "Cancelled",
                      !.completed_at = Some(t),
                      !.updated_at = t])

Job_skip(j, t) ==
    IF j.status # "Pending" /\ j.status # "Queued"
    THEN Err("Build", j)
    ELSE Ok([j EXCEPT !.status = "Skipped", !.updated_at = t])

\* Job::can_retry that counts the first attempt against the retry budget
Job_can_retry_counts_first(j) == j.status = "Failed" /\ j.attempt < j.retry

\* Job::can_retry that does not look at the attempts made
Job_can_retry_any_attempt(j) == j.status = "Failed"

Job_can_retry(j) == j.status = "Failed" /\ j.attempt < j.retry + 1

Job_retry_job(j, t) ==
    IF ~Job_can_retry(j)
    THEN Err("Build", j)
    ELSE Ok([j EXCEPT !.status = "Queued",
                      !.started_at = None,
                      !.completed_at = None,
                      !.exit_code = None,
                      !.logs = "",
                      !.updated_at = t])

\* ------------------------------------------------------------------ Stage
StageStatus == {"Pending", "Running", "Success", "Failed", "Cancelled", "Skipped"}

Stage_new(id, build_id, name, t) ==
    [id |-> id,
     build_id |-> build_id,
     name |-> name,
     status |-> "Pending",
     job_ids |-> << >>,
     started_at |-> None,
     completed_at |-> None,
     created_at |-> t,
     updated_at |-> t]

Stage_start(s, t) ==
    IF s.status # "Pending"
    THEN Err("Build", s)
    ELSE Ok([s EXCEPT !.status = "Running", !.started_at = Some(t), !.updated_at = t])

Stage_succeed(s, t) ==
    IF s.status # "Running"
    THEN Err("Build", s)
    ELSE Ok([s EXCEPT !.status = "Success", !.completed_at = Some(t), !.updated_at = t])

Stage_fail(s, t) ==
    IF s.status # "Running"
    THEN Err("Build", s)
    ELSE Ok([s EXCEPT !.status = "Failed", !.completed_at = Some(t), !.updated_at = t])

Stage_cancel(s, t) ==
    IF s.status = "Success" \/ s.status = "Failed"
    THEN Err("Build", s)
    ELSE Ok([s EXCEPT !.status = "Cancelled", !.completed_at = Some(t), !.updated_at = t])

Stage_skip(s, t) ==
    IF s.status # "Pending"
    THEN Err("Build", s)
    ELSE Ok([s EXCEPT !.status = "Skipped", !.updated_at = t])

\* -------------------------------------------------------------- Workspace
WorkspaceStatus == {"Initializing", "Ready", "InUse", "CleaningUp", "Cleaned", "Error"}

Workspace_new(id, build_id, t) ==
    [id |-> id,
     build_id |-> build_id,
     agent_id |-> None,
     status |-> "Initializing",
     size |-> 0,
     cleanup_on_completion |-> TRUE,
     created_at |-> t,
     updated_at |-> t]

Workspace_assign_to_agent(w, agent_id, t) ==
    [w EXCEPT !.agent_id = Some(agent_id), !.updated_at = t]

Workspace_mark_ready(w, t) ==
    IF w.status # "Initializing"
    THEN Err("Build", w)
    ELSE Ok([w EXCEPT !.status = "Ready", !.updated_at = t])

Workspace_mark_in_use(w, t) ==
    IF w.status # "Ready"
    THEN Err("Build", w)
    ELSE Ok([w EXCEPT !.status = "InUse", !.updated_at = t])

Workspace_start_cleanup(w, t) ==
    IF w.status = "CleaningUp" \/ w.status = "Cleaned"
    THEN Err("Build", w)
    ELSE Ok([w EXCEPT !.status = "CleaningUp", !.updated_at = t])

Workspace_mark_cleaned(w, t) ==
    IF w.status # "CleaningUp"
    THEN Err("Build", w)
    ELSE Ok([w EXCEPT !.status = "Cleaned", !.size = 0, !.updated_at = t])

Workspace_mark_error(w, t) ==
    [w EXCEPT !.status = "Error", !.updated_at = t]

Workspace_update_size(w, size, t) ==
    [w EXCEPT !.size = size, !.updated_at = t]

\* ------------------------------------------------------------ Identifiers
\* no identifier
IdleIdent == [kind |-> "none", uuid |-> << >>]

\* A Uuid is its 32 hexadecimal digits, each a number in 0..15; a string is
\* the sequence of its characters.
HexLower == <<"0", "1", "2", "3", "4", "5", "6", "7", "8", "9", "a", "b", "c", "d", "e", "f">>
HexUpper == <<"0", "1", "2", "3", "4", "5", "6", "7", "8", "9", "A", "B", "C", "D", "E", "F">>

\* the length of the hyphenated form and the places of its hyphens
HyphenatedLen == 36
Hyphens == {9, 14, 19, 24}

IsHex(c) == \E n \in DOMAIN HexLower : c = HexLower[n] \/ c = HexUpper[n]
HexValue(c) == (CHOOSE n \in DOMAIN HexLower : c = HexLower[n] \/ c = HexUpper[n]) - 1

\* the number of hyphens before place i of the hyphenated form
HyphensBefore(i) == Cardinality({h \in Hyphens : h < i})

\* a rendering that leaves the hyphens out
Uuid_to_string_simple(u) == [i \in 1..Len(u) |-> HexLower[u[i] + 1]]

\* Uuid's Display: lower-case digits in groups of 8-4-4-4-12
Uuid_to_string(u) ==
    [i \in 1..HyphenatedLen |->
        IF i \in Hyphens THEN "-" ELSE HexLower[u[i - HyphensBefore(i)] + 1]]

\* the digits of a simple (hyphen-free) form, or Err
ParseSimple(s) ==
    IF Len(s) = HyphenatedLen - Cardinality(Hyphens) /\ \A i \in 1..Len(s) : IsHex(s[i])
    THEN Ok([i \in 1..Len(s) |-> HexValue(s[i])])
    ELSE Err("Uuid", << >>)

\* a parse_str that reads the digits of the hyphenated form in place, hyphens included
Uuid_parse_str_keeps_places(s) ==
    IF Len(s) = HyphenatedLen
    THEN Ok([i \in 1..(HyphenatedLen - Cardinality(Hyphens)) |->
                IF IsHex(s[i]) THEN HexValue(s[i]) ELSE 0])
    ELSE ParseSimple(s)

\* Uuid::parse_str: the hyphenated form, the simple form, either of them in
\* braces, or the hyphenated form after "urn:uuid:"; digits in either case
Uuid_parse_str(s) ==
    LET urn == <<"u", "r", "n", ":", "u", "u", "i", "d", ":">>
        hyphenated(x) ==
            IF Len(x) = HyphenatedLen /\ \A i \in Hyphens : x[i] = "-"
            THEN ParseSimple(SelectSeq(x, LAMBDA c : c # "-"))
            ELSE ParseSimple(x)
    IN  IF Len(s) >= 2 /\ s[1] = "{" /\ s[Len(s)] = "}"
        THEN hyphenated(SubSeq(s, 2, Len(s) - 1))
        ELSE IF Len(s) = Len(urn) + HyphenatedLen /\ SubSeq(s, 1, Len(urn)) = urn
        THEN (IF \A i \in Hyphens : s[Len(urn) + i] = "-"
              THEN hyphenated(SubSeq(s, Len(urn) + 1, Len(s)))
              ELSE Err("Uuid", << >>))
        ELSE hyphenated(s)

\* the identifier types whose code is the same newtype over Uuid
IdKinds == {"Pipeline", "Build", "Stage", "Job", "Agent", "Project", "User", "Workspace"}

\* XxxId::to_string
Id_to_string(id) == Uuid_to_string(id.uuid)

\* XxxId::parse
Id_parse(kind, s) ==
    LET r == Uuid_parse_str(s)
    IN  IF r.err = "Ok" THEN Ok([kind |-> kind, uuid |-> r.v]) ELSE Err(r.err, IdleIdent)

\* ArtifactId: an identifier type like the others
ArtifactId_to_string(id) == Uuid_to_string(id.uuid)
ArtifactId_parse(s) ==
    LET r == Uuid_parse_str(s)
    IN  IF r.err = "Ok" THEN Ok([kind |-> "Artifact", uuid |-> r.v]) ELSE Err(r.err, IdleIdent)

\* ---------------------------------------------------------------- Project
ProjectVisibility == {"Public", "Internal", "Private"}

Project_new(id, name, repository_url, t, uid) ==
    [id |-> id,
     name |-> name,
     repository_url |-> repository_url,
     visibility |-> "Private",
     created_at |-> t,
     updated_at |-> t,
     events |-> <<[type |-> "ProjectCreated", project_id |-> id, name |-> name,
                   at |-> t, uid |-> uid]>>]

Project_set_visibility(p, visibility, t) ==
    [p EXCEPT !.visibility = visibility, !.updated_at = t]

\* ------------------------------------------------------------------- User
\* str::contains(char), on a string given as the sequence of its characters
Contains(s, c) == \E i \in 1..Len(s) : s[i] = c

User_new(id, username, email, password_hash, t, uid) ==
    IF username = "" \/ Len(username) < 3
    THEN Err("Validation", None)
    ELSE IF ~Contains(email, "@")
    THEN Err("Validation", None)
    ELSE Ok([id |-> id,
             username |-> username,
             email |-> email,
             password_hash |-> password_hash,
             active |-> TRUE,
             created_at |-> t,
             updated_at |-> t,
             events |-> <<[type |-> "UserCreated", user_id |-> id,
                           username |-> username, at |-> t, uid |-> uid]>>])

User_update_password(u, new_password_hash, t, uid) ==
    [u EXCEPT !.password_hash = new_password_hash,
              !.updated_at = t,
              !.events = Append(@, [type |-> "UserPasswordChanged", user_id |-> u.id,
                                    at |-> t, uid |-> uid])]

User_deactivate(u, t, uid) ==
    IF u.active
    THEN [u EXCEPT !.active = FALSE,
                   !.updated_at = t,
                   !.events = Append(@, [type |-> "UserDeactivated", user_id |-> u.id,
                                         at |-> t, uid |-> uid])]
    ELSE u

User_activate(u, t) ==
    IF ~u.active
    THEN [u EXCEPT !.active = TRUE, !.updated_at = t]
    ELSE u

\* ------------------------------------------------- entity-level behaviours
\* Values of the variables a specification does not use.
IdleAgent == Agent_new("a1", "n1", 1, 0, 0)
IdleBuild == Build_new("b1", "p1", 1, 0, 0)
IdleCall == [op |-> "new", arg |-> "none", res |-> "Ok"]
IdleConfig == PipelineConfig_new(<< >>, << >>)
IdlePipeline == Pipeline_new("p1", "proj1", "web", IdleConfig, 0, 0)
IdleJob == Job_new("j1", "b1", "compile", "build", 0)
IdleStage == Stage_new("s1", "b1", "build", 0)
IdleProject == Project_new("proj1", "web", "git://web", 0, 0)
IdleUser == User_new("u1", "alice", <<"a", "@", "b">>, "h0", 0, 0).v

\* The entities a specification does not use stay as constructed.
NoAgent == agent = IdleAgent /\ agentCall = IdleCall
NoBuild == build = IdleBuild /\ buildCall = IdleCall
NoConfig == config = IdleConfig /\ configCall = IdleCall
NoPipeline == pipeline = IdlePipeline /\ pipelineCall = IdleCall
NoJob == job = IdleJob /\ jobCall = IdleCall
NoProject == project = IdleProject /\ projectCall = IdleCall
NoUser == user = IdleUser /\ userCall = IdleCall
IdleWorkspace == Workspace_new("w1", "b1", 0)
NoStage == runStage = IdleStage /\ stageCall = IdleCall
NoWorkspace == workspace = IdleWorkspace /\ workspaceCall = IdleCall
NoIdent == ident = IdleIdent /\ identCall = IdleCall

\* No take_events() call made on any entity.
NoTakes == [of |-> "none", log |-> << >>]

\* No aggregate: the local of a task that holds none.
NoAgg == [absent |-> TRUE]
EmptyMap == [x \in {} |-> NoAgg]

\* A task between two service calls; op, id, arg and res are those of its last call.
IdleTask == [pc |-> "idle", op |-> "none", id |-> "none", arg |-> "none",
             local |-> NoAgg, snap |-> NoAgg, res |-> "none"]

\* The repositories and the publisher as their constructors leave them.
ServiceInit ==
    /\ builds = EmptyMap
    /\ agents = EmptyMap
    /\ pipelines = EmptyMap
    /\ minted = {}
    /\ published = << >>
    /\ task = [t \in Tasks |-> IdleTask]
    /\ calls = 0
    /\ assigned = [a \in AgentIds |-> 0]

\* One Agent, as Agent::new leaves it, for every capacity up to MaxJobs.
InitAgent ==
    /\ now = 0
    /\ evseq = 1
    /\ \E m \in 0..MaxJobs : agent = Agent_new("a1", "n1", m, 0, 0)
    /\ agentCall = IdleCall
    /\ NoBuild /\ NoConfig /\ NoPipeline /\ NoJob /\ NoProject /\ NoUser /\ NoStage
    /\ NoWorkspace /\ NoIdent
    /\ taken = NoTakes
    /\ ServiceInit

AgentRegister ==
    \E t \in Clock :
        LET r == Agent_register(agent, "ip1", t) IN
        /\ agent' = r.v
        /\ agentCall' = [op |-> "register", res |-> r.err]
        /\ now' = t
        /\ UNCHANGED <<evseq, buildVars, configVars, pipelineVars, jobVars, projectVars, userVars, taken, stageVars, workspaceVars, identVars, serviceVars>>

AgentHeartbeat ==
    \E t \in Clock :
        LET r == Agent_heartbeat(agent, t) IN
        /\ agent' = r.v
        /\ agentCall' = [op |-> "heartbeat", res |-> r.err]
        /\ now' = t
        /\ UNCHANGED <<evseq, buildVars, configVars, pipelineVars, jobVars, projectVars, userVars, taken, stageVars, workspaceVars, identVars, serviceVars>>

AgentDisconnect ==
    /\ Len(agent.events) < MaxEvents
    /\ \E t \in Clock :
        /\ agent' = Agent_disconnect(agent, t, evseq)
        /\ agentCall' = [op |-> "disconnect", res |-> "Ok"]
        /\ now' = t
        /\ evseq' = evseq + 1
        /\ UNCHANGED <<buildVars, configVars, pipelineVars, jobVars, projectVars, userVars, taken, stageVars, workspaceVars, identVars, serviceVars>>

AgentSetMaintenance ==
    \E t \in Clock :
        /\ agent' = Agent_set_maintenance(agent, t)
        /\ agentCall' = [op |-> "set_maintenance", res |-> "Ok"]
        /\ now' = t
        /\ UNCHANGED <<evseq, buildVars, configVars, pipelineVars, jobVars, projectVars, userVars, taken, stageVars, workspaceVars, identVars, serviceVars>>

AgentAssignJob ==
    \E t \in Clock :
        LET r == Agent_assign_job(agent, t) IN
        /\ agent' = r.v
        /\ agentCall' = [op |-> "assign_job", res |-> r.err]
        /\ now' = IF r.err = "Ok" THEN t ELSE now
        /\ UNCHANGED <<evseq, buildVars, configVars, pipelineVars, jobVars, projectVars, userVars, taken, stageVars, workspaceVars, identVars, serviceVars>>

AgentReleaseJob ==
    \E t \in Clock :
        LET r == Agent_release_job(agent, t) IN
        /\ agent' = r.v
        /\ agentCall' = [op |-> "release_job", res |-> r.err]
        /\ now' = IF r.err = "Ok" THEN t ELSE now
        /\ UNCHANGED <<evseq, buildVars, configVars, pipelineVars, jobVars, projectVars, userVars, taken, stageVars, workspaceVars, identVars, serviceVars>>

NextAgent ==
    \/ AgentRegister
    \/ AgentHeartbeat
    \/ AgentDisconnect
    \/ AgentSetMaintenance
    \/ AgentAssignJob
    \/ AgentReleaseJob

SpecAgent == InitAgent /\ [][NextAgent]_vars

\* One Build, as Build::new leaves it.
InitBuild ==
    /\ now = 0
    /\ evseq = 1
    /\ NoAgent /\ NoConfig /\ NoPipeline /\ NoJob /\ NoProject /\ NoUser /\ NoStage
    /\ NoWorkspace /\ NoIdent
    /\ \E p \in PipelineIds : build = Build_new("b1", p, 1, 0, 0)
    /\ buildCall = IdleCall
    /\ taken = NoTakes
    /\ ServiceInit

BuildCalled(op, arg, r, t) ==
    /\ build' = r.v
    /\ buildCall' = [op |-> op, arg |-> arg, res |-> r.err]
    /\ now' = IF r.err = "Ok" THEN t ELSE now
    /\ evseq' = IF r.err = "Ok" THEN evseq + 1 ELSE evseq
    /\ UNCHANGED <<agentVars, configVars, pipelineVars, jobVars, projectVars, userVars, taken, stageVars, workspaceVars, identVars, serviceVars>>

BuildStart ==
    /\ Len(build.events) < MaxEvents
    /\ \E t \in Clock, a \in AgentIds : BuildCalled("start", a, Build_start(build, a, t, evseq), t)

BuildSucceed ==
    /\ Len(build.events) < MaxEvents
    /\ \E t \in Clock : BuildCalled("succeed", "none", Build_succeed(build, t, evseq), t)

BuildFail ==
    /\ Len(build.events) < MaxEvents
    /\ \E t \in Clock : BuildCalled("fail", "boom", Build_fail(build, "boom", t, evseq), t)

BuildCancel ==
    /\ Len(build.events) < MaxEvents
    /\ \E t \in Clock : BuildCalled("cancel", "none", Build_cancel(build, t, evseq), t)

NextBuild ==
    \/ BuildStart
    \/ BuildSucceed
    \/ BuildFail
    \/ BuildCancel

SpecBuild == InitBuild /\ [][NextBuild]_vars

\* one stage, one job, a Push trigger; the job with or without a command
OneJobConfig(commands) ==
    PipelineConfig_new(<<ConfigStage("build", <<ConfigJob("compile", None, commands)>>)>>,
                       <<"Push">>)

\* The configurations handed to pipelines: two valid ones, one whose job has
\* nothing to run, one without stages.
SampleConfigs ==
    {OneJobConfig(<<"echo">>),
     [OneJobConfig(<<"echo">>) EXCEPT !.triggers = <<"Manual">>],
     OneJobConfig(<< >>),
     IdleConfig}

\* Every PipelineConfig within the bounds: names empty or not, jobs with and
\* without an image and a command.
SeqsUpTo(S, n) == UNION {[1..k -> S] : k \in 0..n}
ConfigJobs ==
    {ConfigJob(n, i, c) : n \in {"", "compile"}, i \in {None, Some("rust:latest")},
                          c \in {<< >>, <<"echo">>}}
ConfigStages ==
    {ConfigStage(n, js) : n \in {"", "build"}, js \in SeqsUpTo(ConfigJobs, MaxStageJobs)}
Triggers == {"Push", "Manual"}
Configs ==
    {[version |-> v, stages |-> ss, triggers |-> ts] :
        v \in {"", "1.0"}, ss \in SeqsUpTo(ConfigStages, MaxStages),
        ts \in SeqsUpTo(Triggers, MaxTriggers)}

InitConfig ==
    /\ now = 0
    /\ evseq = 1
    /\ config \in Configs
    /\ configCall = IdleCall
    /\ NoAgent /\ NoBuild /\ NoPipeline /\ NoJob /\ NoProject /\ NoUser /\ NoStage
    /\ NoWorkspace /\ NoIdent
    /\ taken = NoTakes
    /\ ServiceInit

ConfigValidate ==
    LET r == PipelineConfig_validate(config) IN
    /\ configCall' = [op |-> "validate", arg |-> "none", res |-> r.err, msg |-> r.msg]
    /\ UNCHANGED <<now, evseq, config, agentVars, buildVars, pipelineVars, jobVars, projectVars, userVars,
                   taken, stageVars, workspaceVars, identVars, serviceVars>>

NextConfig == ConfigValidate

SpecConfig == InitConfig /\ [][NextConfig]_vars

\* One Pipeline driven directly: update_config with the clock reading t.
PipelineUpdateConfigAt(t) ==
    \E cfg \in SampleConfigs :
        LET r == Pipeline_update_config(pipeline, cfg, t, evseq) IN
        /\ r.err = "Ok" => pipeline.version < MaxVersion
        /\ pipeline' = r.v
        /\ pipelineCall' = [op |-> "update_config", arg |-> cfg, res |-> r.err]
        /\ now' = IF r.err = "Ok" THEN t ELSE now
        /\ evseq' = IF r.err = "Ok" THEN evseq + 1 ELSE evseq
        /\ UNCHANGED <<agentVars, buildVars, configVars, jobVars, projectVars, userVars, taken, stageVars, workspaceVars, identVars, serviceVars>>

\* One Pipeline driven directly: enable and disable; the clock is read and an
\* event constructed only when the flag changes.
PipelineToggled(op, q, t) ==
    /\ pipeline' = q
    /\ pipelineCall' = [op |-> op, arg |-> "none", res |-> "Ok"]
    /\ now' = IF q # pipeline THEN t ELSE now
    /\ evseq' = IF q # pipeline THEN evseq + 1 ELSE evseq
    /\ UNCHANGED <<agentVars, buildVars, configVars, jobVars, projectVars, userVars,
                   taken, stageVars, workspaceVars, identVars, serviceVars>>

PipelineEnable ==
    /\ Len(pipeline.events) < MaxEvents
    /\ \E t \in Clock : PipelineToggled("enable", Pipeline_enable(pipeline, t, evseq), t)

PipelineDisable ==
    /\ Len(pipeline.events) < MaxEvents
    /\ \E t \in Clock : PipelineToggled("disable", Pipeline_disable(pipeline, t, evseq), t)

\* One Pipeline driven directly: tags and environment variables.
TagNames == {"prod", "nightly"}
EnvKeys == {"RUST_LOG"}
EnvValues == {"info", "debug"}

PipelineEdited(op, arg, q, t) ==
    /\ pipeline' = q
    /\ pipelineCall' = [op |-> op, arg |-> arg, res |-> "Ok"]
    /\ now' = IF q # pipeline THEN t ELSE now
    /\ UNCHANGED <<evseq, agentVars, buildVars, configVars, jobVars, projectVars, userVars,
                   stageVars, workspaceVars, identVars, taken, serviceVars>>

PipelineAddTag ==
    \E t \in Clock, tag \in TagNames :
        PipelineEdited("add_tag", tag, Pipeline_add_tag(pipeline, tag, t), t)

PipelineRemoveTag ==
    \E t \in Clock, tag \in TagNames :
        PipelineEdited("remove_tag", tag, Pipeline_remove_tag(pipeline, tag, t), t)

PipelineSetEnvironmentVariable ==
    \E t \in Clock, k \in EnvKeys, v \in EnvValues :
        PipelineEdited("set_environment_variable", <<k, v>>,
                       Pipeline_set_environment_variable(pipeline, k, v, t), t)

PipelineRemoveEnvironmentVariable ==
    \E t \in Clock, k \in EnvKeys :
        PipelineEdited("remove_environment_variable", k,
                       Pipeline_remove_environment_variable(pipeline, k, t), t)

\* One Project driven directly.
ProjectSetVisibility ==
    \E t \in Clock, v \in ProjectVisibility :
        /\ project' = Project_set_visibility(project, v, t)
        /\ projectCall' = [op |-> "set_visibility", arg |-> v, res |-> "Ok"]
        /\ now' = t
        /\ UNCHANGED <<evseq, agentVars, buildVars, configVars, pipelineVars, jobVars,
                       userVars, taken, stageVars, workspaceVars, identVars, serviceVars>>

\* One User driven directly.
UserCalled(op, q, t) ==
    /\ user' = q
    /\ userCall' = [op |-> op, arg |-> "none", res |-> "Ok"]
    /\ now' = IF q # user THEN t ELSE now
    /\ evseq' = IF Len(q.events) > Len(user.events) THEN evseq + 1 ELSE evseq
    /\ UNCHANGED <<agentVars, buildVars, configVars, pipelineVars, jobVars, projectVars,
                   taken, stageVars, workspaceVars, identVars, serviceVars>>

UserUpdatePassword ==
    /\ Len(user.events) < MaxEvents
    /\ \E t \in Clock : UserCalled("update_password", User_update_password(user, "h1", t, evseq), t)

UserDeactivate ==
    /\ Len(user.events) < MaxEvents
    /\ \E t \in Clock : UserCalled("deactivate", User_deactivate(user, t, evseq), t)

UserActivate ==
    \E t \in Clock : UserCalled("activate", User_activate(user, t), t)

\* One Job, as Job::new leaves it, with the retry budget it was given.
ExitCodes == {0, 1}

InitJob ==
    /\ now = 0
    /\ evseq = 1
    /\ \E r \in 0..MaxRetry : job = [IdleJob EXCEPT !.retry = r]
    /\ jobCall = IdleCall
    /\ NoAgent /\ NoBuild /\ NoConfig /\ NoPipeline /\ NoProject /\ NoUser /\ NoStage
    /\ NoWorkspace /\ NoIdent
    /\ taken = NoTakes
    /\ ServiceInit

JobCalled(op, arg, r, t) ==
    /\ job' = r.v
    /\ jobCall' = [op |-> op, arg |-> arg, res |-> r.err]
    /\ now' = IF r.err = "Ok" THEN t ELSE now
    /\ UNCHANGED <<evseq, agentVars, buildVars, configVars, pipelineVars, projectVars,
                   userVars, taken, stageVars, workspaceVars, identVars, serviceVars>>

JobQueue == \E t \in Clock : JobCalled("queue", "none", Job_queue(job, t), t)

JobStart == \E t \in Clock, a \in AgentIds : JobCalled("start", a, Job_start(job, a, t), t)

JobSucceed ==
    \E t \in Clock, c \in ExitCodes : JobCalled("succeed", c, Job_succeed(job, c, t), t)

JobFail == \E t \in Clock, c \in ExitCodes : JobCalled("fail", c, Job_fail(job, c, t), t)

JobCancel == \E t \in Clock : JobCalled("cancel", "none", Job_cancel(job, t), t)

JobSkip == \E t \in Clock : JobCalled("skip", "none", Job_skip(job, t), t)

JobRetry == \E t \in Clock : JobCalled("retry_job", "none", Job_retry_job(job, t), t)

NextJob ==
    \/ JobQueue
    \/ JobStart
    \/ JobSucceed
    \/ JobFail
    \/ JobCancel
    \/ JobSkip
    \/ JobRetry

SpecJob == InitJob /\ [][NextJob]_vars

\* One runtime Stage, as Stage::new leaves it.
InitStage ==
    /\ now = 0
    /\ evseq = 1
    /\ runStage = IdleStage
    /\ stageCall = IdleCall
    /\ NoAgent /\ NoBuild /\ NoConfig /\ NoPipeline /\ NoJob /\ NoProject /\ NoUser
    /\ NoWorkspace /\ NoIdent
    /\ taken = NoTakes
    /\ ServiceInit

StageCalled(op, r, t) ==
    /\ runStage' = r.v
    /\ stageCall' = [op |-> op, arg |-> "none", res |-> r.err]
    /\ now' = IF r.err = "Ok" THEN t ELSE now
    /\ UNCHANGED <<evseq, agentVars, buildVars, configVars, pipelineVars, jobVars,
                   projectVars, userVars, workspaceVars, identVars, taken, serviceVars>>

StageStart == \E t \in Clock : StageCalled("start", Stage_start(runStage, t), t)

StageSucceed == \E t \in Clock : StageCalled("succeed", Stage_succeed(runStage, t), t)

StageFail == \E t \in Clock : StageCalled("fail", Stage_fail(runStage, t), t)

StageCancel == \E t \in Clock : StageCalled("cancel", Stage_cancel(runStage, t), t)

StageSkip == \E t \in Clock : StageCalled("skip", Stage_skip(runStage, t), t)

NextStage ==
    \/ StageStart
    \/ StageSucceed
    \/ StageFail
    \/ StageCancel
    \/ StageSkip

SpecStage == InitStage /\ [][NextStage]_vars

\* One Workspace, as Workspace::new leaves it, with every method called in any order.
InitWorkspace ==
    /\ now = 0
    /\ evseq = 1
    /\ workspace = IdleWorkspace
    /\ workspaceCall = IdleCall
    /\ NoAgent /\ NoBuild /\ NoConfig /\ NoPipeline /\ NoJob /\ NoProject /\ NoUser /\ NoStage
    /\ NoIdent
    /\ taken = NoTakes
    /\ ServiceInit

\* the sizes update_size is given
Sizes == {0, 5}

WorkspaceCalled(op, arg, r, t) ==
    /\ workspace' = r.v
    /\ workspaceCall' = [op |-> op, arg |-> arg, res |-> r.err]
    /\ now' = IF r.err = "Ok" THEN t ELSE now
    /\ UNCHANGED <<evseq, agentVars, buildVars, configVars, pipelineVars, jobVars,
                   projectVars, userVars, stageVars, identVars, taken, serviceVars>>

WorkspaceMarkReady ==
    \E t \in Clock : WorkspaceCalled("mark_ready", "none", Workspace_mark_ready(workspace, t), t)

WorkspaceMarkInUse ==
    \E t \in Clock : WorkspaceCalled("mark_in_use", "none", Workspace_mark_in_use(workspace, t), t)

WorkspaceStartCleanup ==
    \E t \in Clock :
        WorkspaceCalled("start_cleanup", "none", Workspace_start_cleanup(workspace, t), t)

WorkspaceMarkCleaned ==
    \E t \in Clock :
        WorkspaceCalled("mark_cleaned", "none", Workspace_mark_cleaned(workspace, t), t)

WorkspaceMarkError ==
    \E t \in Clock :
        WorkspaceCalled("mark_error", "none", Ok(Workspace_mark_error(workspace, t)), t)

WorkspaceUpdateSize ==
    \E t \in Clock, size \in Sizes :
        WorkspaceCalled("update_size", size, Ok(Workspace_update_size(workspace, size, t)), t)

WorkspaceAssignToAgent ==
    \E t \in Clock, a \in AgentIds :
        WorkspaceCalled("assign_to_agent", a,
                        Ok(Workspace_assign_to_agent(workspace, a, t)), t)

NextWorkspace ==
    \/ WorkspaceMarkReady
    \/ WorkspaceMarkInUse
    \/ WorkspaceStartCleanup
    \/ WorkspaceMarkCleaned
    \/ WorkspaceMarkError
    \/ WorkspaceUpdateSize
    \/ WorkspaceAssignToAgent

SpecWorkspace == InitWorkspace /\ [][NextWorkspace]_vars

\* The Uuids the identifiers are drawn from: 32 digits alternating between two
\* values, the first any digit.
SampleUuids ==
    {[i \in 1..(HyphenatedLen - Cardinality(Hyphens)) |-> IF i % 2 = 1 THEN hi ELSE lo] :
        hi \in 0..15, lo \in {0, 9, 10, 15}}

AllIdKinds == IdKinds \cup {"Artifact"}

ToText(id) == IF id.kind = "Artifact" THEN ArtifactId_to_string(id) ELSE Id_to_string(id)
FromText(kind, s) == IF kind = "Artifact" THEN ArtifactId_parse(s) ELSE Id_parse(kind, s)

\* One identifier of any type, as XxxId::new() returned it.
InitIdent ==
    /\ now = 0
    /\ evseq = 1
    /\ \E kind \in AllIdKinds, u \in SampleUuids :
        /\ ident = [kind |-> kind, uuid |-> u]
        /\ minted = {u}
    /\ identCall = [op |-> "new", arg |-> IdleIdent, res |-> "Ok", v |-> IdleIdent]
    /\ NoAgent /\ NoBuild /\ NoConfig /\ NoPipeline /\ NoJob /\ NoProject /\ NoUser /\ NoStage
    /\ NoWorkspace
    /\ taken = NoTakes
    /\ builds = EmptyMap
    /\ agents = EmptyMap
    /\ pipelines = EmptyMap
    /\ published = << >>
    /\ task = [t \in Tasks |-> IdleTask]
    /\ calls = 0
    /\ assigned = [a \in AgentIds |-> 0]

IdentUnchanged ==
    UNCHANGED <<now, evseq, agentVars, buildVars, configVars, pipelineVars, jobVars,
                projectVars, userVars, stageVars, workspaceVars, taken,
                builds, agents, pipelines, published, task, calls, assigned>>

\* id.to_string()
IdentToString ==
    /\ identCall' = [op |-> "to_string", arg |-> ident, res |-> "Ok", v |-> ToText(ident)]
    /\ UNCHANGED <<ident, minted>>
    /\ IdentUnchanged

\* XxxId::parse(&text) of the string to_string returned
IdentParse ==
    /\ identCall.op = "to_string"
    /\ LET r == FromText(ident.kind, identCall.v)
       IN  identCall' = [op |-> "parse", arg |-> identCall.v, res |-> r.err, v |-> r.v]
    /\ UNCHANGED <<ident, minted>>
    /\ IdentUnchanged

\* XxxId::new() a second time: Uuid::new_v4() gives a Uuid not given before
IdentNew ==
    /\ minted = {ident.uuid}
    /\ \E u \in SampleUuids \ minted :
        /\ ident' = [ident EXCEPT !.uuid = u]
        /\ minted' = minted \cup {u}
        /\ identCall' = [op |-> "new", arg |-> ident, res |-> "Ok", v |-> ident']
    /\ IdentUnchanged

NextIdent == IdentToString \/ IdentParse \/ IdentNew

SpecIdent == InitIdent /\ [][NextIdent]_vars

\* take_events() on the aggregate whose buffer is drained; `taken` records what
\* the call returned.
Aggregates == {"Pipeline", "Build", "Agent", "Project", "User"}

CanTake(kind) == taken.of = kind /\ Len(taken.log) < MaxTakes
Took(r) == taken' = [taken EXCEPT !.log = Append(@, r.events)]
TakeCall == [op |-> "take_events", arg |-> "none", res |-> "Ok"]

AgentTakeEvents ==
    /\ CanTake("Agent")
    /\ LET r == take_events(agent) IN
        /\ agent' = r.v
        /\ agentCall' = TakeCall
        /\ Took(r)
    /\ UNCHANGED <<now, evseq, buildVars, configVars, pipelineVars, jobVars,
                   projectVars, userVars, stageVars, workspaceVars, identVars, serviceVars>>

BuildTakeEvents ==
    /\ CanTake("Build")
    /\ LET r == take_events(build) IN
        /\ build' = r.v
        /\ buildCall' = TakeCall
        /\ Took(r)
    /\ UNCHANGED <<now, evseq, agentVars, configVars, pipelineVars, jobVars,
                   projectVars, userVars, stageVars, workspaceVars, identVars, serviceVars>>

PipelineTakeEvents ==
    /\ CanTake("Pipeline")
    /\ LET r == take_events(pipeline) IN
        /\ pipeline' = r.v
        /\ pipelineCall' = TakeCall
        /\ Took(r)
    /\ UNCHANGED <<now, evseq, agentVars, buildVars, configVars, jobVars,
                   projectVars, userVars, stageVars, workspaceVars, identVars, serviceVars>>

ProjectTakeEvents ==
    /\ CanTake("Project")
    /\ LET r == take_events(project) IN
        /\ project' = r.v
        /\ projectCall' = TakeCall
        /\ Took(r)
    /\ UNCHANGED <<now, evseq, agentVars, buildVars, configVars, pipelineVars, jobVars,
                   userVars, stageVars, workspaceVars, identVars, serviceVars>>

UserTakeEvents ==
    /\ CanTake("User")
    /\ LET r == take_events(user) IN
        /\ user' = r.v
        /\ userCall' = TakeCall
        /\ Took(r)
    /\ UNCHANGED <<now, evseq, agentVars, buildVars, configVars, pipelineVars, jobVars,
                   projectVars, stageVars, workspaceVars, identVars, serviceVars>>

\* One aggregate of any of the five kinds, as its constructor leaves it; its
\* methods and take_events() are called in any order.
InitDrain ==
    /\ now = 0
    /\ evseq = 1
    /\ NoAgent /\ NoBuild /\ NoConfig /\ NoPipeline /\ NoJob /\ NoProject /\ NoUser /\ NoStage
    /\ NoWorkspace /\ NoIdent
    /\ \E kind \in Aggregates : taken = [of |-> kind, log |-> << >>]
    /\ ServiceInit

NextPipelineDirect ==
    \/ \E t \in Clock : PipelineUpdateConfigAt(t)
    \/ PipelineEnable
    \/ PipelineDisable

\* One Pipeline, as Pipeline::new leaves it, with every method called in any order.
InitPipeline ==
    /\ now = 0
    /\ evseq = 1
    /\ \E n \in PipelineNames, cfg \in SampleConfigs :
            pipeline = Pipeline_new("p1", "proj1", n, cfg, 0, 0)
    /\ pipelineCall = IdleCall
    /\ NoAgent /\ NoBuild /\ NoConfig /\ NoJob /\ NoProject /\ NoUser /\ NoStage
    /\ NoWorkspace /\ NoIdent
    /\ taken = NoTakes
    /\ ServiceInit

NextPipeline ==
    \/ NextPipelineDirect
    \/ PipelineAddTag
    \/ PipelineRemoveTag
    \/ PipelineSetEnvironmentVariable
    \/ PipelineRemoveEnvironmentVariable

SpecPipeline == InitPipeline /\ [][NextPipeline]_vars

NextUser ==
    \/ UserUpdatePassword
    \/ UserDeactivate
    \/ UserActivate

\* the aggregate appends at most MaxEvents events after the one of its constructor
NextDrain ==
    \/ /\ evseq <= MaxEvents
       /\ \/ taken.of = "Agent" /\ NextAgent
          \/ taken.of = "Build" /\ NextBuild
          \/ taken.of = "Pipeline" /\ NextPipelineDirect
          \/ taken.of = "Project" /\ ProjectSetVisibility
          \/ taken.of = "User" /\ NextUser
    \/ AgentTakeEvents
    \/ BuildTakeEvents
    \/ PipelineTakeEvents
    \/ ProjectTakeEvents
    \/ UserTakeEvents

SpecDrain == InitDrain /\ [][NextDrain]_vars

\* ------------------------------------------------------------ repositories
\* HashMap::remove
Remove(m, k) == [x \in (DOMAIN m) \ {k} |-> m[x]]

\* HashMap::insert
Put(m, k, v) == [x \in (DOMAIN m) \cup {k} |-> IF x = k THEN v ELSE m[x]]

Max(S) == CHOOSE x \in S : \A y \in S : y <= x
Min(S) == CHOOSE x \in S : \A y \in S : x <= y

\* InMemoryBuildRepository::next_build_number without the pipeline filter
next_build_number_any_pipeline(bs, pipeline_id) ==
    LET numbers == {bs[i].number : i \in DOMAIN bs}
    IN  (IF numbers = {} THEN 0 ELSE Max(numbers)) + 1

\* InMemoryBuildRepository::next_build_number returning the maximum itself
next_build_number_no_increment(bs, pipeline_id) ==
    LET numbers == {bs[i].number : i \in {j \in DOMAIN bs : bs[j].pipeline_id = pipeline_id}}
    IN  IF numbers = {} THEN 1 ELSE Max(numbers)

next_build_number(bs, pipeline_id) ==
    LET numbers == {bs[i].number : i \in {j \in DOMAIN bs : bs[j].pipeline_id = pipeline_id}}
    IN  (IF numbers = {} THEN 0 ELSE Max(numbers)) + 1

\* a find_by_name that sees only the agents that are Online
find_by_name_online(as, name) ==
    {as[i] : i \in {j \in DOMAIN as : as[j].name = name /\ as[j].status = "Online"}}

\* InMemoryAgentRepository::find_by_name: Some agent of that name, or None
find_by_name(as, name) == {as[i] : i \in {j \in DOMAIN as : as[j].name = name}}

\* InMemoryAgentRepository::find_by_labels: the stored agents that pass the
\* filter; `labels` is the slice of (key, value) pairs
find_by_labels(as, labels) ==
    {as[i] : i \in {j \in DOMAIN as :
                        \A n \in 1..Len(labels) :
                            Agent_has_label(as[j], labels[n][1], labels[n][2])}}

\* InMemoryBuildRepository::find_running: the stored builds that are in progress
find_running(bs) == {bs[i] : i \in {j \in DOMAIN bs : bs[j].status = "Running"}}

\* Ids already handed out: stored, or held by a call in progress.
UsedIds == (DOMAIN builds) \cup (DOMAIN agents)
           \cup {task[t].local.id : t \in {u \in Tasks : task[u].local # NoAgg}}

\* an id generator that only avoids the ids already stored
FreshId_among_stored(pool) ==
    LET free == {i \in DOMAIN pool : pool[i] \notin (DOMAIN builds) \cup (DOMAIN agents)}
    IN  IF free = {} THEN None ELSE Some(pool[Min(free)])

\* Uuid::new_v4(): an id nothing else carries (the first unused one of the pool).
FreshId(pool) ==
    LET free == {i \in DOMAIN pool : pool[i] \notin UsedIds}
    IN  IF free = {} THEN None ELSE Some(pool[Min(free)])

\* ------------------------------------------------------------ service calls
\* A call returns: the task is idle again and holds the result.
Returned(t, op, id, arg, res, ret) ==
    [pc |-> "idle", op |-> op, id |-> id, arg |-> arg,
     local |-> ret, snap |-> NoAgg, res |-> res]

\* A call goes on to persist `local`, which it loaded as `snap`.
Persisting(t, op, id, arg, local, snap) ==
    [pc |-> "persist", op |-> op, id |-> id, arg |-> arg,
     local |-> local, snap |-> snap, res |-> "pending"]

CanCall(t) == task[t].pc = "idle" /\ calls < MaxCalls

\* BuildService::create_build up to the save: next_build_number, Build::new
create_build_new(t, pipeline_id) ==
    /\ task[t].pc = "idle"
    /\ \E id \in FreshId(BuildIdSeq) :
        LET number == next_build_number(builds, pipeline_id)
            b == Build_new(id, pipeline_id, number, now, evseq)
        IN  /\ task' = [task EXCEPT ![t] = Persisting(t, "create_build", id, pipeline_id, b, NoAgg)]
            /\ evseq' = evseq + 1
    /\ UNCHANGED <<now, entityVars, pipelineStore, builds, agents, published, assigned>>

\* create_build, counted against the budget of calls
create_build(t, pipeline_id) ==
    /\ CanCall(t)
    /\ calls' = calls + 1
    /\ create_build_new(t, pipeline_id)

\* The first part of a BuildService call that drops the mutator's result
\* instead of returning its error.
BuildCall_ignores_failure(t, op, id, arg, r) ==
    /\ CanCall(t)
    /\ calls' = calls + 1
    /\ IF id \notin DOMAIN builds
       THEN /\ task' = [task EXCEPT ![t] = Returned(t, op, id, arg, "NotFound", NoAgg)]
            /\ UNCHANGED evseq
       ELSE /\ task' = [task EXCEPT ![t] = Persisting(t, op, id, arg, r.v, builds[id])]
            /\ evseq' = IF r.err = "Ok" THEN evseq + 1 ELSE evseq
    /\ UNCHANGED <<now, entityVars, pipelineStore, builds, agents, published, assigned>>

\* The first part of a BuildService call on a stored build: find_by_id, then the mutator.
BuildLoad(t, op, id, arg, r) ==
    /\ task[t].pc = "idle"
    /\ IF id \notin DOMAIN builds
       THEN /\ task' = [task EXCEPT ![t] = Returned(t, op, id, arg, "NotFound", NoAgg)]
            /\ UNCHANGED evseq
       ELSE IF r.err # "Ok"
       THEN /\ task' = [task EXCEPT ![t] = Returned(t, op, id, arg, r.err, NoAgg)]
            /\ UNCHANGED evseq
       ELSE /\ task' = [task EXCEPT ![t] = Persisting(t, op, id, arg, r.v, builds[id])]
            /\ evseq' = evseq + 1
    /\ UNCHANGED <<now, entityVars, pipelineStore, builds, agents, published, assigned>>

\* a BuildService call on a stored build, counted against the budget of calls
BuildCall(t, op, id, arg, r) ==
    /\ CanCall(t)
    /\ calls' = calls + 1
    /\ BuildLoad(t, op, id, arg, r)

\* Build::start on the stored build, as start_build calls it
Started(id, agent_id) ==
    IF id \in DOMAIN builds THEN Build_start(builds[id], agent_id, now, evseq)
    ELSE Err("NotFound", NoAgg)

start_build(t, id, agent_id) == BuildCall(t, "start_build", id, agent_id, Started(id, agent_id))

complete_build(t, id) ==
    BuildCall(t, "complete_build", id, "none",
              IF id \in DOMAIN builds THEN Build_succeed(builds[id], now, evseq)
              ELSE Err("NotFound", NoAgg))

fail_build(t, id) ==
    BuildCall(t, "fail_build", id, "boom",
              IF id \in DOMAIN builds THEN Build_fail(builds[id], "boom", now, evseq)
              ELSE Err("NotFound", NoAgg))

cancel_build(t, id) ==
    BuildCall(t, "cancel_build", id, "none",
              IF id \in DOMAIN builds THEN Build_cancel(builds[id], now, evseq)
              ELSE Err("NotFound", NoAgg))

\* BuildService::get_build
get_build(t, id) ==
    /\ CanCall(t)
    /\ calls' = calls + 1
    /\ task' = [task EXCEPT ![t] =
                  IF id \notin DOMAIN builds
                  THEN Returned(t, "get_build", id, "none", "NotFound", NoAgg)
                  ELSE Returned(t, "get_build", id, "none", "Ok", builds[id])]
    /\ UNCHANGED <<now, evseq, entityVars, pipelineStore, builds, agents, published, assigned>>

BuildOps == {"create_build", "start_build", "complete_build", "fail_build", "cancel_build"}

\* repository.save / repository.update of a BuildService call: the clone
\* of the whole build, its event buffer included, goes into the map
BuildPersist(t) ==
    /\ task[t].pc = "persist"
    /\ task[t].op \in BuildOps
    /\ builds' = Put(builds, task[t].local.id, task[t].local)
    /\ task' = [task EXCEPT ![t].pc = "publish"]
    /\ UNCHANGED <<now, evseq, entityVars, pipelineStore, agents, published, calls, assigned>>

\* take_events and publish_batch of a BuildService call, and its return
BuildPublish(t) ==
    /\ task[t].pc = "publish"
    /\ task[t].op \in BuildOps
    /\ LET drained == take_events(task[t].local) IN
        /\ published' = published \o drained.events
        /\ task' = [task EXCEPT ![t] =
                      Returned(t, task[t].op, task[t].id, task[t].arg, "Ok",
                               IF task[t].op = "create_build" THEN drained.v ELSE NoAgg)]
    /\ UNCHANGED <<now, evseq, entityVars, pipelineStore, builds, agents, calls, assigned>>

BuildServiceStep(t) ==
    \/ \E p \in PipelineIds : create_build(t, p)
    \/ \E id \in BuildIds, a \in AgentIds : start_build(t, id, a)
    \/ \E id \in BuildIds : complete_build(t, id)
    \/ \E id \in BuildIds : fail_build(t, id)
    \/ \E id \in BuildIds : cancel_build(t, id)
    \/ BuildPersist(t)
    \/ BuildPublish(t)

\* AgentService::register_agent up to the save: find_by_name, Agent::new, register
register_agent(t, name, max_concurrent_jobs) ==
    /\ CanCall(t)
    /\ calls' = calls + 1
    /\ IF find_by_name(agents, name) # None
       THEN /\ task' = [task EXCEPT ![t] =
                          Returned(t, "register_agent", "none", name, "Conflict", NoAgg)]
            /\ UNCHANGED evseq
       ELSE \E id \in FreshId(AgentIdSeq) :
            LET a == Agent_register(Agent_new(id, name, max_concurrent_jobs, now, evseq),
                                    "ip1", now).v
            IN  /\ task' = [task EXCEPT ![t] =
                              Persisting(t, "register_agent", id, name, a, NoAgg)]
                /\ evseq' = evseq + 1
    /\ UNCHANGED <<now, entityVars, pipelineStore, builds, agents, published, assigned>>

\* The first part of an AgentService call on a stored agent: find_by_id, then
\* the mutator, which builds `emitted` events when it succeeds.
AgentLoad(t, op, id, r, emitted) ==
    /\ task[t].pc = "idle"
    /\ IF id \notin DOMAIN agents
       THEN /\ task' = [task EXCEPT ![t] = Returned(t, op, id, "none", "NotFound", NoAgg)]
            /\ UNCHANGED evseq
       ELSE IF r.err # "Ok"
       THEN /\ task' = [task EXCEPT ![t] = Returned(t, op, id, "none", r.err, NoAgg)]
            /\ UNCHANGED evseq
       ELSE /\ task' = [task EXCEPT ![t] = Persisting(t, op, id, "none", r.v, agents[id])]
            /\ evseq' = evseq + emitted
    /\ UNCHANGED <<now, entityVars, pipelineStore, builds, agents, published, assigned>>

\* an AgentService call on a stored agent, counted against the budget of calls
AgentCall(t, op, id, r, emitted) ==
    /\ CanCall(t)
    /\ calls' = calls + 1
    /\ AgentLoad(t, op, id, r, emitted)

\* Agent::assign_job on the stored agent, as assign_job calls it
Assigned(id) ==
    IF id \in DOMAIN agents THEN Agent_assign_job(agents[id], now)
    ELSE Err("NotFound", NoAgg)

heartbeat(t, id) ==
    AgentCall(t, "heartbeat", id,
              IF id \in DOMAIN agents THEN Agent_heartbeat(agents[id], now)
              ELSE Err("NotFound", NoAgg), 0)

disconnect_agent(t, id) ==
    AgentCall(t, "disconnect_agent", id,
              IF id \in DOMAIN agents THEN Ok(Agent_disconnect(agents[id], now, evseq))
              ELSE Err("NotFound", NoAgg), 1)

assign_job(t, id) == AgentCall(t, "assign_job", id, Assigned(id), 0)

release_job(t, id) ==
    AgentCall(t, "release_job", id,
              IF id \in DOMAIN agents THEN Agent_release_job(agents[id], now)
              ELSE Err("NotFound", NoAgg), 0)

AgentOps == {"register_agent", "heartbeat", "disconnect_agent", "assign_job", "release_job"}
\* the AgentService calls that drain and publish after they persist
AgentPublishingOps == {"register_agent", "disconnect_agent"}

\* the ledger of jobs handed out: a successful assign_job adds one, a
\* successful release_job takes one off
Ledger(op, id) ==
    [assigned EXCEPT ![id] = IF op = "assign_job" THEN @ + 1
                             ELSE IF op = "release_job" THEN @ - 1 ELSE @]

\* repository.save / repository.update of an AgentService call; heartbeat,
\* assign_job and release_job return right after it
AgentPersist(t) ==
    /\ task[t].pc = "persist"
    /\ task[t].op \in AgentOps
    /\ agents' = Put(agents, task[t].local.id, task[t].local)
    /\ IF task[t].op \in AgentPublishingOps
       THEN /\ task' = [task EXCEPT ![t].pc = "publish"]
            /\ UNCHANGED assigned
       ELSE /\ task' = [task EXCEPT ![t] =
                          Returned(t, task[t].op, task[t].id, task[t].arg, "Ok", NoAgg)]
            /\ assigned' = Ledger(task[t].op, task[t].id)
    /\ UNCHANGED <<now, evseq, entityVars, pipelineStore, builds, published, calls>>

\* take_events and publish_batch of an AgentService call, and its return
AgentPublish(t) ==
    /\ task[t].pc = "publish"
    /\ task[t].op \in AgentOps
    /\ LET drained == take_events(task[t].local) IN
        /\ published' = published \o drained.events
        /\ task' = [task EXCEPT ![t] =
                      Returned(t, task[t].op, task[t].id, task[t].arg, "Ok",
                               IF task[t].op = "register_agent" THEN drained.v ELSE NoAgg)]
    /\ UNCHANGED <<now, evseq, entityVars, pipelineStore, builds, agents, calls, assigned>>

AgentServiceStep(t) ==
    \/ \E n \in AgentNames, m \in 0..MaxJobs : register_agent(t, n, m)
    \/ \E id \in AgentIds : heartbeat(t, id)
    \/ \E id \in AgentIds : disconnect_agent(t, id)
    \/ \E id \in AgentIds : assign_job(t, id)
    \/ \E id \in AgentIds : release_job(t, id)
    \/ AgentPersist(t)
    \/ AgentPublish(t)

\* timeout_seconds given to cleanup_dead_agents
Timeouts == {0, 1}

\* the orders in which HashMap::values can hand out the agents of m
Orders(m) ==
    {f \in [1..Cardinality(DOMAIN m) -> DOMAIN m] :
        \A i, k \in DOMAIN f : i # k => f[i] # f[k]}

\* A cleanup_dead_agents call: `todo` is what is left of all_agents,
\* `cleaned` the counter; all_agents, log0 and ev0 keep what find_all
\* returned, the length of the publisher's log and the event count when the
\* call began, and `seen` the clock reading of is_dead for each agent.
ReapTask(pc, timeout_seconds, res, local, todo, cleaned, prev) ==
    [pc |-> pc, op |-> "cleanup_dead_agents", id |-> "none", arg |-> timeout_seconds,
     local |-> local, snap |-> NoAgg, res |-> res, todo |-> todo, cleaned |-> cleaned,
     all_agents |-> prev.all_agents, log0 |-> prev.log0, ev0 |-> prev.ev0,
     seen |-> prev.seen]

\* AgentService::cleanup_dead_agents up to the loop: repository.find_all
cleanup_dead_agents(t, timeout_seconds) ==
    /\ CanCall(t)
    /\ calls' = calls + 1
    /\ \E order \in Orders(agents) :
        task' = [task EXCEPT ![t] =
                    ReapTask("reap", timeout_seconds, "pending", NoAgg,
                             [i \in DOMAIN order |-> agents[order[i]]], 0,
                             [all_agents |-> agents, log0 |-> Len(published),
                              ev0 |-> evseq, seen |-> EmptyMap])]
    /\ UNCHANGED <<now, evseq, entityVars, pipelineStore, builds, agents, published, assigned>>

\* One turn of the loop up to repository.update: an agent that is Offline or
\* not dead is passed over, a dead one is disconnected and stored; after
\* the last agent the call returns Ok(cleaned).
ReapNext(t) ==
    /\ task[t].pc = "reap"
    /\ IF task[t].todo = << >>
       THEN /\ task' = [task EXCEPT ![t] =
                          ReapTask("idle", task[t].arg, "Ok", NoAgg, << >>,
                                   task[t].cleaned, task[t])]
            /\ UNCHANGED <<agents, evseq>>
       ELSE LET a == Head(task[t].todo)
                seen == [task[t] EXCEPT !.seen = Put(@, a.id, now)]
            IN
            IF a.status # "Offline" /\ Agent_is_dead(a, task[t].arg, now)
            THEN LET d == Agent_disconnect(a, now, evseq) IN
                 /\ agents' = Put(agents, d.id, d)
                 /\ evseq' = evseq + 1
                 /\ task' = [task EXCEPT ![t] =
                               ReapTask("reap_publish", task[t].arg, "pending", d,
                                        task[t].todo, task[t].cleaned, seen)]
            ELSE /\ task' = [task EXCEPT ![t] =
                               ReapTask("reap", task[t].arg, "pending", NoAgg,
                                        Tail(task[t].todo), task[t].cleaned, seen)]
                 /\ UNCHANGED <<agents, evseq>>
    /\ UNCHANGED <<now, entityVars, pipelineStore, builds, published, calls, assigned>>

\* The rest of the turn: take_events, publish_batch, cleaned += 1
ReapPublish(t) ==
    /\ task[t].pc = "reap_publish"
    /\ published' = published \o take_events(task[t].local).events
    /\ task' = [task EXCEPT ![t] =
                  ReapTask("reap", task[t].arg, "pending", NoAgg,
                           Tail(task[t].todo), task[t].cleaned + 1, task[t])]
    /\ UNCHANGED <<now, evseq, entityVars, pipelineStore, builds, agents, calls, assigned>>

\* repository.update returns an error: `?` leaves the loop and the call
ReapUpdateFails(t) ==
    /\ task[t].pc = "reap"
    /\ task[t].todo # << >>
    /\ Head(task[t].todo).status # "Offline"
    /\ Agent_is_dead(Head(task[t].todo), task[t].arg, now)
    /\ task' = [task EXCEPT ![t] =
                  ReapTask("idle", task[t].arg, "Repository", NoAgg,
                           task[t].todo, task[t].cleaned,
                           [task[t] EXCEPT !.seen = Put(@, Head(task[t].todo).id, now)])]
    /\ evseq' = evseq + 1
    /\ UNCHANGED <<now, entityVars, pipelineStore, builds, agents, published, calls, assigned>>

\* publish_batch returns an error: `?` leaves the loop and the call
ReapPublishFails(t) ==
    /\ task[t].pc = "reap_publish"
    /\ task' = [task EXCEPT ![t] =
                  ReapTask("idle", task[t].arg, "ExternalService", NoAgg,
                           task[t].todo, task[t].cleaned, task[t])]
    /\ UNCHANGED <<now, evseq, entityVars, pipelineStore, builds, agents, published,
                   calls, assigned>>

ReaperStep(t) ==
    \/ \E timeout_seconds \in Timeouts : cleanup_dead_agents(t, timeout_seconds)
    \/ ReapNext(t)
    \/ ReapPublish(t)

\* The clock moves on by one tick.
Tick ==
    /\ now < MaxTime
    /\ now' = now + 1
    /\ UNCHANGED <<evseq, entityVars, serviceVars>>

\* PipelineId::new(): an id never handed out before
FreshPipelineId ==
    LET free == {i \in DOMAIN PipelineIdSeq : PipelineIdSeq[i] \notin minted}
    IN  IF free = {} THEN None ELSE Some(PipelineIdSeq[Min(free)])

\* PipelineService::create_pipeline up to the save: config.validate,
\* Pipeline::new, pipeline.validate
create_pipeline(t, project_id, name, cfg) ==
    /\ CanCall(t)
    /\ calls' = calls + 1
    /\ IF PipelineConfig_validate(cfg).err # "Ok"
       THEN /\ task' = [task EXCEPT ![t] =
                          Returned(t, "create_pipeline", "none", cfg,
                                   PipelineConfig_validate(cfg).err, NoAgg)]
            /\ UNCHANGED <<evseq, minted>>
       ELSE \E id \in FreshPipelineId :
            LET p == Pipeline_new(id, project_id, name, cfg, now, evseq) IN
            /\ evseq' = evseq + 1
            /\ minted' = minted \cup {id}
            /\ task' = [task EXCEPT ![t] =
                          IF Pipeline_validate(p).err # "Ok"
                          THEN Returned(t, "create_pipeline", "none", cfg,
                                        Pipeline_validate(p).err, NoAgg)
                          ELSE Persisting(t, "create_pipeline", id, cfg, p, NoAgg)]
    /\ UNCHANGED <<now, entityVars, pipelines, builds, agents, published, assigned>>

\* The part of a PipelineService call on a stored pipeline that starts at
\* find_by_id: the lookup, then the mutator
PipelineCall(t, op, id, arg, r) ==
    /\ CanCall(t)
    /\ calls' = calls + 1
    /\ IF id \notin DOMAIN pipelines
       THEN /\ task' = [task EXCEPT ![t] = Returned(t, op, id, arg, "NotFound", NoAgg)]
            /\ UNCHANGED evseq
       ELSE IF r.err # "Ok"
       THEN /\ task' = [task EXCEPT ![t] = Returned(t, op, id, arg, r.err, NoAgg)]
            /\ UNCHANGED evseq
       ELSE /\ task' = [task EXCEPT ![t] = Persisting(t, op, id, arg, r.v, pipelines[id])]
            /\ evseq' = evseq + Len(r.v.events) - Len(pipelines[id].events)
    /\ UNCHANGED <<now, entityVars, pipelineStore, builds, agents, published, assigned>>

\* PipelineService::update_config: config.validate comes before the lookup
update_config(t, id, cfg) ==
    IF PipelineConfig_validate(cfg).err # "Ok"
    THEN /\ CanCall(t)
         /\ calls' = calls + 1
         /\ task' = [task EXCEPT ![t] =
                       Returned(t, "update_config", id, cfg,
                                PipelineConfig_validate(cfg).err, NoAgg)]
         /\ UNCHANGED <<now, evseq, entityVars, pipelineStore, builds, agents,
                        published, assigned>>
    ELSE PipelineCall(t, "update_config", id, cfg,
                      IF id \in DOMAIN pipelines
                      THEN Pipeline_update_config(pipelines[id], cfg, now, evseq)
                      ELSE Err("NotFound", NoAgg))

enable_pipeline(t, id) ==
    PipelineCall(t, "enable_pipeline", id, "none",
                 IF id \in DOMAIN pipelines THEN Ok(Pipeline_enable(pipelines[id], now, evseq))
                 ELSE Err("NotFound", NoAgg))

disable_pipeline(t, id) ==
    PipelineCall(t, "disable_pipeline", id, "none",
                 IF id \in DOMAIN pipelines THEN Ok(Pipeline_disable(pipelines[id], now, evseq))
                 ELSE Err("NotFound", NoAgg))

\* PipelineService::delete_pipeline without the exists check
delete_pipeline_unchecked(t, id) ==
    /\ CanCall(t)
    /\ calls' = calls + 1
    /\ task' = [task EXCEPT ![t] =
                  [pc |-> "delete", op |-> "delete_pipeline", id |-> id, arg |-> "none",
                   local |-> NoAgg, snap |-> NoAgg, res |-> "pending"]]
    /\ UNCHANGED <<now, evseq, entityVars, pipelineStore, builds, agents, published, assigned>>

\* PipelineService::delete_pipeline up to the delete: repository.exists
delete_pipeline(t, id) ==
    /\ CanCall(t)
    /\ calls' = calls + 1
    /\ task' = [task EXCEPT ![t] =
                  IF id \notin DOMAIN pipelines
                  THEN Returned(t, "delete_pipeline", id, "none", "NotFound", NoAgg)
                  ELSE [pc |-> "delete", op |-> "delete_pipeline", id |-> id, arg |-> "none",
                        local |-> NoAgg, snap |-> NoAgg, res |-> "pending"]]
    /\ UNCHANGED <<now, evseq, entityVars, pipelineStore, builds, agents, published, assigned>>

\* repository.delete of delete_pipeline, and its return
PipelineDelete(t) ==
    /\ task[t].pc = "delete"
    /\ pipelines' = Remove(pipelines, task[t].id)
    /\ task' = [task EXCEPT ![t] = Returned(t, "delete_pipeline", task[t].id, "none", "Ok", NoAgg)]
    /\ UNCHANGED <<now, evseq, entityVars, minted, builds, agents, published, calls, assigned>>

\* PipelineService::get_pipeline
get_pipeline(t, id) ==
    /\ CanCall(t)
    /\ calls' = calls + 1
    /\ task' = [task EXCEPT ![t] =
                  IF id \notin DOMAIN pipelines
                  THEN Returned(t, "get_pipeline", id, "none", "NotFound", NoAgg)
                  ELSE Returned(t, "get_pipeline", id, "none", "Ok", pipelines[id])]
    /\ UNCHANGED <<now, evseq, entityVars, pipelineStore, builds, agents, published, assigned>>

PipelineOps == {"create_pipeline", "update_config", "enable_pipeline", "disable_pipeline"}

\* repository.save / repository.update of a PipelineService call
PipelinePersist(t) ==
    /\ task[t].pc = "persist"
    /\ task[t].op \in PipelineOps
    /\ pipelines' = Put(pipelines, task[t].local.id, task[t].local)
    /\ task' = [task EXCEPT ![t].pc = "publish"]
    /\ UNCHANGED <<now, evseq, entityVars, minted, builds, agents, published, calls, assigned>>

\* take_events and publish_batch of a PipelineService call, and its return
PipelinePublish(t) ==
    /\ task[t].pc = "publish"
    /\ task[t].op \in PipelineOps
    /\ LET drained == take_events(task[t].local) IN
        /\ published' = published \o drained.events
        /\ task' = [task EXCEPT ![t] =
                      Returned(t, task[t].op, task[t].id, task[t].arg, "Ok",
                               IF task[t].op = "create_pipeline" THEN drained.v ELSE NoAgg)]
    /\ UNCHANGED <<now, evseq, entityVars, pipelineStore, builds, agents, calls, assigned>>

PipelineServiceStep(t) ==
    \/ \E pr \in ProjectIds, n \in PipelineNames, cfg \in SampleConfigs :
            create_pipeline(t, pr, n, cfg)
    \/ \E id \in PipelineIds, cfg \in SampleConfigs : update_config(t, id, cfg)
    \/ \E id \in PipelineIds : enable_pipeline(t, id)
    \/ \E id \in PipelineIds : disable_pipeline(t, id)
    \/ \E id \in PipelineIds : delete_pipeline(t, id)
    \/ \E id \in PipelineIds : get_pipeline(t, id)
    \/ PipelinePersist(t)
    \/ PipelinePublish(t)
    \/ PipelineDelete(t)

\* What a repository holds once the write of `local` under `id` is undone.
Undone(m, id, snap) == IF snap = NoAgg THEN Remove(m, id) ELSE Put(m, id, snap)

\* A failed publish_batch that is answered by putting the loaded record back.
PublishFails_rolls_back(t) ==
    /\ task[t].pc = "publish"
    /\ \E k \in 0..(Len(task[t].local.events) - 1) :
        published' = published \o SubSeq(task[t].local.events, 1, k)
    /\ builds' = IF task[t].op \in BuildOps
                 THEN Undone(builds, task[t].id, task[t].snap) ELSE builds
    /\ agents' = IF task[t].op \in AgentOps
                 THEN Undone(agents, task[t].id, task[t].snap) ELSE agents
    /\ pipelines' = IF task[t].op \in PipelineOps
                    THEN Undone(pipelines, task[t].id, task[t].snap) ELSE pipelines
    /\ task' = [task EXCEPT ![t] =
                  Returned(t, task[t].op, task[t].id, task[t].arg, "ExternalService",
                           task[t].local)]
    /\ UNCHANGED <<now, evseq, entityVars, minted, calls, assigned>>

\* publish_batch returns an error after it has taken some of the batch or
\* none of it: the `?` returns the error; `local` keeps what the call had
\* persisted.
PublishFails(t) ==
    /\ task[t].pc = "publish"
    /\ \E k \in 0..(Len(task[t].local.events) - 1) :
        published' = published \o SubSeq(task[t].local.events, 1, k)
    /\ task' = [task EXCEPT ![t] =
                  Returned(t, task[t].op, task[t].id, task[t].arg, "ExternalService",
                           task[t].local)]
    /\ UNCHANGED <<now, evseq, entityVars, pipelineStore, builds, agents, calls, assigned>>

\* ------------------------------------------------------------ agent labels
LabelKeys == {"os", "arch"}
LabelValues == {"linux", "mac"}
LabelPairs == LabelKeys \X LabelValues

\* every label map over the keys and values
LabelMaps == UNION {[K -> LabelValues] : K \in SUBSET LabelKeys}

\* An agent as register_agent stores it, with the labels `m` added to it.
LabelledAgent(n, m) ==
    [Agent_register(Agent_new(AgentIdSeq[n], "n" \o ToString(n), 1, 0, 0), "ip1", 0).v
        EXCEPT !.labels = m]

\* The agent repositories that hold labelled agents.
LabelledStores ==
    UNION {{[id \in {AgentIdSeq[n] : n \in N} |->
                LabelledAgent(CHOOSE n \in N : AgentIdSeq[n] = id, f[id])] :
                f \in [{AgentIdSeq[n] : n \in N} -> LabelMaps]} :
           N \in SUBSET (1..Len(AgentIdSeq))}

InitLabels ==
    /\ now = 0
    /\ evseq = 1
    /\ NoAgent /\ NoBuild /\ NoConfig /\ NoPipeline /\ NoJob /\ NoProject /\ NoUser /\ NoStage
    /\ NoWorkspace /\ NoIdent
    /\ taken = NoTakes
    /\ builds = EmptyMap
    /\ agents \in LabelledStores
    /\ pipelines = EmptyMap
    /\ minted = {}
    /\ published = << >>
    /\ task = [t \in Tasks |-> IdleTask]
    /\ calls = 0
    /\ assigned = [a \in AgentIds |-> 0]

AgentAddLabel ==
    \E t \in Clock, kv \in LabelPairs :
        /\ agent' = Agent_add_label(agent, kv[1], kv[2], t)
        /\ agentCall' = [op |-> "add_label", arg |-> kv, res |-> "Ok"]
        /\ now' = t
        /\ UNCHANGED <<evseq, buildVars, configVars, pipelineVars, jobVars, projectVars,
                       userVars, stageVars, workspaceVars, identVars, taken, serviceVars>>

AgentRemoveLabel ==
    \E t \in Clock, k \in LabelKeys :
        /\ agent' = Agent_remove_label(agent, k, t)
        /\ agentCall' = [op |-> "remove_label", arg |-> k, res |-> "Ok"]
        /\ now' = t
        /\ UNCHANGED <<evseq, buildVars, configVars, pipelineVars, jobVars, projectVars,
                       userVars, stageVars, workspaceVars, identVars, taken, serviceVars>>

\* AgentRepository::find_by_labels, asked with up to MaxPairs pairs
FindByLabels(t) ==
    \E labels \in SeqsUpTo(LabelPairs, MaxPairs) :
        /\ task' = [task EXCEPT ![t] =
                      Returned(t, "find_by_labels", "none", labels, "Ok",
                               find_by_labels(agents, labels))]
        /\ UNCHANGED <<now, evseq, entityVars, pipelineStore, builds, agents, published,
                       calls, assigned>>

NextLabels == AgentAddLabel \/ AgentRemoveLabel \/ FindByLabels("t1")
SpecLabels == InitLabels /\ [][NextLabels]_vars

\* ------------------------------------------------------ the event publisher
\* InMemoryEventPublisher::publish: Vec::push
publish(log, event) == Append(log, event)

\* a publish_batch that puts the batch in front of the log
publish_batch_in_front(log, events) == events \o log

\* InMemoryEventPublisher::publish_batch: Vec::extend
publish_batch(log, events) == log \o events

\* The events handed to the publisher directly.
SampleEvents ==
    {[type |-> "BuildCreated", build_id |-> "b1", pipeline_id |-> "p1", number |-> 1,
      at |-> 0, uid |-> 0],
     [type |-> "BuildStarted", build_id |-> "b1", agent_id |-> "a1", at |-> 0, uid |-> 1]}

\* The record of a task that calls the publisher: `arg` is what this call
\* handed over and `local` what every call so far handed over, call by call.
Handed(t, op, events) ==
    Returned(t, op, "none", events, "Ok",
             [handed |-> IF task[t].local = NoAgg THEN <<events>>
                         ELSE Append(task[t].local.handed, events)])

PublisherPublish(t) ==
    /\ CanCall(t)
    /\ Len(published) < MaxEvents
    /\ \E e \in SampleEvents :
        /\ published' = publish(published, e)
        /\ task' = [task EXCEPT ![t] = Handed(t, "publish", <<e>>)]
    /\ calls' = calls + 1
    /\ UNCHANGED <<now, evseq, entityVars, pipelineStore, builds, agents, assigned>>

PublisherPublishBatch(t) ==
    /\ CanCall(t)
    /\ \E events \in SeqsUpTo(SampleEvents, MaxBatch) :
        /\ Len(published) + Len(events) <= MaxEvents
        /\ published' = publish_batch(published, events)
        /\ task' = [task EXCEPT ![t] = Handed(t, "publish_batch", events)]
    /\ calls' = calls + 1
    /\ UNCHANGED <<now, evseq, entityVars, pipelineStore, builds, agents, assigned>>

NextPublisher == PublisherPublish("t1") \/ PublisherPublishBatch("t1")

\* ------------------------------------- tasks working on their own aggregates
\* Each task has an agent of its own.
OwnAgent(t) == IF t = "t1" THEN AgentIdSeq[1] ELSE AgentIdSeq[2]
OwnName(t) == IF t = "t1" THEN "n1" ELSE "n2"

\* An agent as k successful assign_job calls leave it.
RECURSIVE Loaded(_, _)
Loaded(a, k) == IF k = 0 THEN a ELSE Loaded(Agent_assign_job(a, 0).v, k - 1)

\* The agent of task t as register_agent stored it, with k jobs assigned since.
OwnStored(t, uid, m, k) ==
    Loaded(Agent_register(Agent_new(OwnAgent(t), OwnName(t), m, 0, uid), "ip1", 0).v, k)

\* The agents are registered, each with room for one more job, before the
\* tasks are spawned.
InitOwn ==
    /\ now = 0
    /\ evseq = 3
    /\ NoAgent /\ NoBuild /\ NoConfig /\ NoPipeline /\ NoJob /\ NoProject /\ NoUser /\ NoStage
    /\ NoWorkspace /\ NoIdent
    /\ taken = NoTakes
    /\ builds = EmptyMap
    /\ pipelines = EmptyMap
    /\ minted = {}
    /\ task = [t \in Tasks |-> IdleTask]
    /\ calls = 0
    /\ \E m1 \in 1..MaxJobs, m2 \in 1..MaxJobs :
        \E k1 \in 0..(m1 - 1), k2 \in 0..(m2 - 1) :
            /\ agents = Put(Put(EmptyMap, OwnAgent("t1"), OwnStored("t1", 1, m1, k1)),
                            OwnAgent("t2"), OwnStored("t2", 2, m2, k2))
            /\ assigned = [a \in AgentIds |-> IF a = OwnAgent("t1") THEN k1 ELSE k2]
    /\ published = take_events(OwnStored("t1", 1, 1, 0)).events
                    \o take_events(OwnStored("t2", 2, 1, 0)).events

\* the task's first call: create_build
OwnCreate(t) ==
    /\ task[t].op = "none"
    /\ \E p \in PipelineIds : create_build_new(t, p)
    /\ UNCHANGED calls

\* then start_build on the build it created, with its own agent
OwnStart(t) ==
    /\ task[t].op = "create_build"
    /\ task[t].res = "Ok"
    /\ BuildLoad(t, "start_build", task[t].id, OwnAgent(t), Started(task[t].id, OwnAgent(t)))
    /\ UNCHANGED calls

\* then assign_job on its own agent
OwnAssign(t) ==
    /\ task[t].op = "start_build"
    /\ task[t].res = "Ok"
    /\ AgentLoad(t, "assign_job", OwnAgent(t), Assigned(OwnAgent(t)), 0)
    /\ UNCHANGED calls

NextOwn ==
    \E t \in Tasks :
        \/ OwnCreate(t)
        \/ OwnStart(t)
        \/ OwnAssign(t)
        \/ BuildPersist(t)
        \/ BuildPublish(t)
        \/ AgentPersist(t)

\* ------------------------------------- calls and the reaper on one agent
\* One agent is registered, with any capacity and any number of jobs assigned
\* since, before the tasks start.
InitStored ==
    /\ now = 0
    /\ evseq = 2
    /\ NoAgent /\ NoBuild /\ NoConfig /\ NoPipeline /\ NoJob /\ NoProject /\ NoUser /\ NoStage
    /\ NoWorkspace /\ NoIdent
    /\ taken = NoTakes
    /\ builds = EmptyMap
    /\ pipelines = EmptyMap
    /\ minted = {}
    /\ task = [t \in Tasks |-> IdleTask]
    /\ calls = 0
    /\ \E m \in 1..MaxJobs :
        \E k \in 0..m :
            /\ agents = Put(EmptyMap, OwnAgent("t1"), OwnStored("t1", 1, m, k))
            /\ assigned = [a \in AgentIds |-> IF a = OwnAgent("t1") THEN k ELSE 0]
    /\ published = take_events(OwnStored("t1", 1, 1, 0)).events

\* the AgentService calls on the stored agent
StoredAgentStep(t) ==
    \/ heartbeat(t, OwnAgent("t1"))
    \/ disconnect_agent(t, OwnAgent("t1"))
    \/ assign_job(t, OwnAgent("t1"))
    \/ release_job(t, OwnAgent("t1"))
    \/ AgentPersist(t)
    \/ AgentPublish(t)

NextStored ==
    \/ StoredAgentStep("t1")
    \/ ReaperStep("t2")
    \/ Tick

\* ------------------------------------------------------ service behaviours
InitServices ==
    /\ now = 0
    /\ evseq = 1
    /\ NoAgent /\ NoBuild /\ NoConfig /\ NoPipeline /\ NoJob /\ NoProject /\ NoUser /\ NoStage
    /\ NoWorkspace /\ NoIdent
    /\ taken = NoTakes
    /\ ServiceInit

\* service calls issued one at a time: one task, each call runs to its return
NextSeq == BuildServiceStep("t1") \/ AgentServiceStep("t1")
SpecSeq == InitServices /\ [][NextSeq]_vars

\* concurrent BuildService calls
NextBuildConc == \E t \in Tasks : BuildServiceStep(t)
SpecBuildConc == InitServices /\ [][NextBuildConc]_vars

\* concurrent AgentService calls
NextAgentConc == \E t \in Tasks : AgentServiceStep(t)
SpecAgentConc == InitServices /\ [][NextAgentConc]_vars

\* PipelineService calls issued one at a time, and one Pipeline entity driven
\* directly next to them
NextPipe == PipelineServiceStep("t1") \/ PipelineUpdateConfigAt(now)
SpecPipe == InitServices /\ [][NextPipe]_vars

\* calls of the three services and get_build, issued one at a time
NextAll ==
    \/ BuildServiceStep("t1")
    \/ AgentServiceStep("t1")
    \/ PipelineServiceStep("t1")
    \/ \E id \in BuildIds : get_build("t1", id)
SpecAll == InitServices /\ [][NextAll]_vars

\* AgentService calls and reaper passes issued one at a time, with time passing
NextReaper == AgentServiceStep("t1") \/ ReaperStep("t1") \/ Tick
SpecReaper == InitServices /\ [][NextReaper]_vars

\* the same with a repository and a publisher that can fail during a pass
NextReaperFaulty ==
    \/ NextReaper
    \/ ReapUpdateFails("t1")
    \/ ReapPublishFails("t1")
SpecReaperFaulty == InitServices /\ [][NextReaperFaulty]_vars

\* calls of the three services issued one at a time, with a publisher that can fail
NextPublishFaulty == NextAll \/ PublishFails("t1")
SpecPublishFaulty == InitServices /\ [][NextPublishFaulty]_vars

\* the publisher called directly, one call at a time
SpecPublisher == InitServices /\ [][NextPublisher]_vars

\* two tasks, each creating and starting its own build on its own agent
SpecOwn == InitOwn /\ [][NextOwn]_vars

\* one task calling the agent service and one running the reaper, on one registered agent
SpecStored == InitStored /\ [][NextStored]_vars

\* two tasks calling the pipeline service concurrently
NextPipeConc == \E t \in Tasks : PipelineServiceStep(t)
SpecPipeConc == InitServices /\ [][NextPipeConc]_vars

\* ================================================================== claims
\* ---- the Agent entity (SpecAgent)

\* C1: after every call on an Agent (assign_job and release_job, with register,
\* heartbeat, disconnect and set_maintenance mixed in) the job counter stays
\* within 0 .. max_concurrent_jobs.
C1_JobsWithinCapacity ==
    /\ 0 <= agent.current_jobs
    /\ agent.current_jobs <= agent.max_concurrent_jobs

\* An agent put back Online by register() while full refuses one more job.
C1_Witness ==
    /\ agentCall.op = "assign_job"
    /\ agentCall.res = "Agent"
    /\ agent.status = "Online"
    /\ agent.max_concurrent_jobs >= 1
    /\ agent.current_jobs = agent.max_concurrent_jobs

\* C5: assign_job() succeeds exactly when the agent is Online with spare
\* capacity; a success adds exactly one job and leaves the agent Busy iff it
\* is now full, else Online; a refusal is an Agent error and changes nothing.
C5_AssignJobContract ==
    [][agentCall'.op = "assign_job" =>
        IF agent.status = "Online" /\ agent.current_jobs < agent.max_concurrent_jobs
        THEN /\ agentCall'.res = "Ok"
             /\ agent'.current_jobs = agent.current_jobs + 1
             /\ agent'.max_concurrent_jobs = agent.max_concurrent_jobs
             /\ agent'.status = IF agent'.current_jobs = agent.max_concurrent_jobs
                                THEN "Busy" ELSE "Online"
        ELSE /\ agentCall'.res = "Agent"
             /\ agent' = agent]_vars

\* The (N+1)-th assignment to an agent of capacity N = MaxJobs is refused.
C5_Witness ==
    /\ agentCall.op = "assign_job"
    /\ agentCall.res = "Agent"
    /\ agent.status = "Busy"
    /\ agent.max_concurrent_jobs = MaxJobs
    /\ agent.current_jobs = MaxJobs

\* C6: release_job() on an agent without jobs is an error that changes
\* nothing; otherwise it takes exactly one job off and sets the status Online.
C6_ReleaseJobContract ==
    [][agentCall'.op = "release_job" =>
        IF agent.current_jobs = 0
        THEN /\ agentCall'.res # "Ok"
             /\ agent' = agent
        ELSE /\ agentCall'.res = "Ok"
             /\ agent'.current_jobs = agent.current_jobs - 1
             /\ agent'.status = "Online"]_vars

\* release_job() was refused on an agent in maintenance that holds no job:
\* the status is still Maintenance.
C6_Witness ==
    /\ agentCall.op = "release_job"
    /\ agentCall.res = "Agent"
    /\ agent.status = "Maintenance"
    /\ agent.ip_address # None
    /\ agent.current_jobs = 0

\* C7: the status is a view of load against capacity: Busy iff the agent is
\* full, and Online only below capacity.
C7_StatusDerivedFromLoad ==
    /\ (agent.status = "Busy") <=> (agent.current_jobs = agent.max_concurrent_jobs)
    /\ (agent.status = "Online") => (agent.current_jobs < agent.max_concurrent_jobs)

\* ---- the Build entity (SpecBuild)

\* C2: start(agent) succeeds only from Pending (to Running, recording the
\* agent), succeed() and fail(message) only from Running (to Success, Failed);
\* from every other status the call is a Build error and changes nothing.
C2_StartSucceedFailContract ==
    [][/\ buildCall'.op = "start" =>
            IF build.status = "Pending"
            THEN /\ buildCall'.res = "Ok"
                 /\ build'.status = "Running"
                 /\ build'.agent_id = Some(buildCall'.arg)
            ELSE /\ buildCall'.res = "Build"
                 /\ build' = build
       /\ buildCall'.op = "succeed" =>
            IF build.status = "Running"
            THEN buildCall'.res = "Ok" /\ build'.status = "Success"
            ELSE buildCall'.res = "Build" /\ build' = build
       /\ buildCall'.op = "fail" =>
            IF build.status = "Running"
            THEN buildCall'.res = "Ok" /\ build'.status = "Failed"
            ELSE buildCall'.res = "Build" /\ build' = build]_vars

\* A second start() on a running build was refused.
C2_Witness ==
    /\ buildCall.op = "start"
    /\ buildCall.res = "Build"
    /\ build.status = "Running"
    /\ Len(build.events) = 2

\* C3: cancel() succeeds only from Pending or Running, where it sets
\* Cancelled and appends one BuildCancelled; from Success, Failed or
\* Cancelled it is a Build error and changes neither state nor buffer.
C3_CancelContract ==
    [][buildCall'.op = "cancel" =>
        IF build.status \in {"Pending", "Running"}
        THEN /\ buildCall'.res = "Ok"
             /\ build'.status = "Cancelled"
             /\ Len(build'.events) = Len(build.events) + 1
             /\ build'.events[Len(build'.events)].type = "BuildCancelled"
        ELSE /\ buildCall'.res = "Build"
             /\ build' = build]_vars
\* ---- the services, calls issued one at a time (SpecSeq)

\* C4: every event an aggregate buffers is published exactly once: no event
\* object appears twice in the publisher's log.
C4_EventsPublishedOnce ==
    \A i, j \in DOMAIN published :
        i # j => published[i].uid # published[j].uid

StoredOf(pipeline_id) == {i \in DOMAIN builds : builds[i].pipeline_id = pipeline_id}

\* C8: with create_build calls issued one at a time, the builds stored for a
\* pipeline carry exactly the numbers 1..N, N being how many were created for
\* it, and the call that has just returned the N-th of them returned number
\* N, whatever was created for other pipelines.
C8_SequentialNumbering ==
    /\ \A p \in PipelineIds :
        /\ {builds[i].number : i \in StoredOf(p)} = 1..Cardinality(StoredOf(p))
        /\ \A i, j \in StoredOf(p) : builds[i].number = builds[j].number => i = j
    /\ \A t \in Tasks :
        (task[t].pc = "idle" /\ task[t].op = "create_build" /\ task[t].res = "Ok")
            => task[t].local.number = Cardinality(StoredOf(task[t].arg))

\* The second build of a pipeline was just returned with number 2 while the
\* other pipeline holds a build of its own.
C8_Witness ==
    /\ task["t1"].pc = "idle"
    /\ task["t1"].op = "create_build"
    /\ task["t1"].res = "Ok"
    /\ task["t1"].local.number = 2
    /\ \E q \in PipelineIds \ {task["t1"].arg} : StoredOf(q) # {}

\* ---- concurrent BuildService calls (SpecBuildConc)

\* C9: next_build_number and save are separate steps, so a create_build that
\* is about to save finds its number already stored for its pipeline exactly
\* when the number is stale, that is, when another build of the pipeline was
\* saved after it read the maximum; two stored builds of one pipeline with
\* the same number are then reachable (C9_Witness).
C9_CollisionIffStaleNumber ==
    \A t \in Tasks :
        (task[t].pc = "persist" /\ task[t].op = "create_build") =>
            LET b == task[t].local IN
            (\E i \in StoredOf(b.pipeline_id) : builds[i].number = b.number)
                <=> (b.number # next_build_number(builds, b.pipeline_id))

\* Two create_build calls have both returned Ok and their builds, stored for
\* the same pipeline, carry the same number.
C9_Witness ==
    /\ \A t \in Tasks :
        task[t].pc = "idle" /\ task[t].op = "create_build" /\ task[t].res = "Ok"
    /\ \E i, j \in DOMAIN builds :
        /\ i # j
        /\ builds[i].pipeline_id = builds[j].pipeline_id
        /\ builds[i].number = builds[j].number

\* ---- concurrent AgentService calls (SpecAgentConc)

\* C10: load, mutate and persist are separate steps, so the jobs handed out
\* (successful assign_job less successful release_job) part from the stored
\* current_jobs only when a call persists a copy of a record that changed
\* after the call loaded it; two assign_job calls that both loaded the same
\* spare capacity then both succeed and the jobs handed out exceed
\* max_concurrent_jobs (C10_Witness).
C10_LedgerPartsOnlyOnStalePersist ==
    [][\A a \in DOMAIN agents :
        (assigned[a] = agents[a].current_jobs /\ assigned'[a] # agents'[a].current_jobs)
            => \E t \in Tasks :
                /\ task[t].pc = "persist"
                /\ task'[t].pc # "persist"
                /\ task[t].id = a
                /\ task[t].snap # agents[a]]_vars

\* Both tasks' assign_job on one agent returned Ok and more jobs are out
\* than the agent's max_concurrent_jobs.
C10_Witness ==
    \E a \in DOMAIN agents :
        /\ \A t \in Tasks :
            task[t].pc = "idle" /\ task[t].op = "assign_job"
                /\ task[t].id = a /\ task[t].res = "Ok"
        /\ assigned[a] > agents[a].max_concurrent_jobs

\* ---- PipelineConfig (SpecConfig)
\* what the claim requires of a configuration
WellFormedConfig(c) ==
    /\ c.version # ""
    /\ Len(c.stages) >= 1
    /\ Len(c.triggers) >= 1
    /\ \A i \in DOMAIN c.stages :
        /\ c.stages[i].name # ""
        /\ Len(c.stages[i].jobs) >= 1
        /\ \A k \in DOMAIN c.stages[i].jobs :
            /\ c.stages[i].jobs[k].name # ""
            /\ (Len(c.stages[i].jobs[k].commands) >= 1 \/ c.stages[i].jobs[k].image # None)

\* C11: validate() returns Ok exactly for the configurations with a non-empty
\* version, a stage, a trigger, named stages with a job each, and named jobs
\* with a command or an image, and a Validation error for every other one; the
\* one-job configuration with a command passes and without it fails.
C11_ValidateIffWellFormed ==
    configCall.op = "validate" =>
        /\ configCall.res \in {"Ok", "Validation"}
        /\ configCall.res = "Ok" <=> WellFormedConfig(config)
        /\ config = OneJobConfig(<<"echo">>) => configCall.res = "Ok"
        /\ config = OneJobConfig(<< >>) => configCall.res = "Validation"

C11_Witness ==
    /\ configCall.op = "validate"
    /\ config = OneJobConfig(<<"echo">>)
    /\ configCall.res = "Ok"

\* ---- PipelineService and Pipeline (SpecPipe)
\* C12: update_config with a configuration that does not validate returns a
\* Validation error and changes nothing: called on a Pipeline it leaves the
\* whole entity (config, version, event buffer) as it was; called on the
\* service it returns at once, the repository and the publisher's log are
\* as before the call.
C12_InvalidUpdateRejected ==
    [][/\ (/\ pipelineVars' # pipelineVars
           /\ pipelineCall'.op = "update_config"
           /\ PipelineConfig_validate(pipelineCall'.arg).err # "Ok")
          => /\ pipelineCall'.res = "Validation"
             /\ pipeline' = pipeline
       /\ (/\ calls' # calls
           /\ task'["t1"].op = "update_config"
           /\ PipelineConfig_validate(task'["t1"].arg).err # "Ok")
          => /\ task'["t1"].pc = "idle"
             /\ task'["t1"].res = "Validation"
             /\ pipelines' = pipelines
             /\ published' = published]_vars

C12_Witness ==
    /\ pipelineCall.op = "update_config"
    /\ pipelineCall.res = "Validation"
    /\ pipeline.version = 2
    /\ task["t1"].op = "update_config"
    /\ task["t1"].res = "Validation"
    /\ task["t1"].id \in DOMAIN pipelines
    /\ pipelines[task["t1"].id].version = 2

\* ---- all services, calls issued one at a time (SpecAll)
\* the methods that address an aggregate by id, and the repository each reads
BuildByIdOps == {"start_build", "complete_build", "fail_build", "cancel_build", "get_build"}
AgentByIdOps == {"heartbeat", "disconnect_agent", "assign_job", "release_job"}
PipelineByIdOps == {"update_config", "enable_pipeline", "disable_pipeline",
                    "delete_pipeline", "get_pipeline"}

\* the step starts a call of a by-id method with an id that is not stored
CallsAbsentId ==
    /\ calls' # calls
    /\ \/ task'["t1"].op \in BuildByIdOps /\ task'["t1"].id \notin DOMAIN builds
       \/ task'["t1"].op \in AgentByIdOps /\ task'["t1"].id \notin DOMAIN agents
       \/ task'["t1"].op \in PipelineByIdOps /\ task'["t1"].id \notin DOMAIN pipelines

\* the call has returned in this step and has written nothing
ReturnsUntouched(res) ==
    /\ task'["t1"].pc = "idle"
    /\ task'["t1"].res = res
    /\ builds' = builds
    /\ agents' = agents
    /\ pipelines' = pipelines
    /\ published' = published

\* C13 as stated: every by-id method called with an id that is not stored
\* returns NotFound, changes no stored record and publishes nothing.
C13_NotFoundForAbsentId ==
    [][CallsAbsentId => ReturnsUntouched("NotFound")]_vars

\* C13 as amended: the same, except that update_config with a configuration
\* that does not validate returns the Validation error (it validates before
\* it looks the pipeline up); it too changes no record and publishes nothing.
C13_NotFoundUnlessInvalidConfig ==
    [][CallsAbsentId =>
          IF /\ task'["t1"].op = "update_config"
             /\ PipelineConfig_validate(task'["t1"].arg).err # "Ok"
          THEN ReturnsUntouched("Validation")
          ELSE ReturnsUntouched("NotFound")]_vars

C13_Witness ==
    /\ task["t1"].op = "update_config"
    /\ task["t1"].res = "NotFound"
    /\ task["t1"].id \notin DOMAIN pipelines
    /\ pipelines # EmptyMap
    /\ builds # EmptyMap

\* ---- BuildService and AgentService, a refused mutator (SpecSeq)
\* the step starts a call whose entity mutator refuses the stored record
CallsRefusedBuild ==
    /\ calls' # calls
    /\ task'["t1"].id \in DOMAIN builds
    /\ LET b == builds[task'["t1"].id] IN
        \/ task'["t1"].op \in {"complete_build", "fail_build"} /\ b.status # "Running"
        \/ task'["t1"].op = "start_build" /\ b.status # "Pending"
        \/ task'["t1"].op = "cancel_build" /\ b.status \in {"Success", "Failed"}

CallsRefusedAgent ==
    /\ calls' # calls
    /\ task'["t1"].id \in DOMAIN agents
    /\ LET a == agents[task'["t1"].id] IN
        \/ /\ task'["t1"].op = "assign_job"
           /\ (a.status # "Online" \/ a.current_jobs >= a.max_concurrent_jobs)
        \/ task'["t1"].op = "release_job" /\ a.current_jobs = 0

\* C14: a service call whose entity mutator fails (complete_build or fail_build
\* on a build not Running, start_build on one not Pending, cancel_build on a
\* Success or Failed one, assign_job on an agent that cannot accept, release_job
\* on one without jobs) returns the mutator's error (Build, Agent) at once and
\* leaves the repositories and the publisher's log as they were.
C14_RefusedCallWritesNothing ==
    [][/\ CallsRefusedBuild => ReturnsUntouched("Build")
       /\ CallsRefusedAgent => ReturnsUntouched("Agent")]_vars

C14_Witness ==
    /\ task["t1"].op = "complete_build"
    /\ task["t1"].res = "Build"
    /\ task["t1"].id \in DOMAIN builds
    /\ builds[task["t1"].id].status = "Pending"
    /\ published # << >>

\* ---- the reaper (SpecReaper, SpecReaperFaulty)
\* a cleanup_dead_agents call of task t1 has returned Ok
PassDone ==
    /\ task["t1"].pc = "idle"
    /\ task["t1"].op = "cleanup_dead_agents"
    /\ task["t1"].res = "Ok"

\* the stored agents that were not Offline when the pass began
InService == {id \in DOMAIN task["t1"].all_agents : task["t1"].all_agents[id].status # "Offline"}

\* those of them whose heartbeat was more than timeout_seconds seconds old
\* when the pass looked at them
OlderThanTimeout ==
    {id \in InService :
        task["t1"].seen[id] - task["t1"].all_agents[id].last_heartbeat
            > task["t1"].arg * TicksPerSecond}

\* those of them whose heartbeat age, in whole seconds, was more than
\* timeout_seconds when the pass looked at them
WholeSecondsOverTimeout ==
    {id \in InService :
        (task["t1"].seen[id] - task["t1"].all_agents[id].last_heartbeat) \div TicksPerSecond
            > task["t1"].arg}

\* the events the pass built and published
PassEvents ==
    {i \in (task["t1"].log0 + 1)..Len(published) : published[i].uid >= task["t1"].ev0}

\* the pass has set exactly the agents of D to Offline, published one
\* AgentDisconnected of its own for each, returned their number and left
\* every other agent as it was
ReapedExactly(D) ==
    /\ DOMAIN agents = DOMAIN task["t1"].all_agents
    /\ \A id \in DOMAIN agents :
        IF id \in D
        THEN /\ agents[id].status = "Offline"
             /\ agents[id].current_jobs = task["t1"].all_agents[id].current_jobs
             /\ agents[id].last_heartbeat = task["t1"].all_agents[id].last_heartbeat
             /\ Cardinality({i \in PassEvents : published[i].agent_id = id}) = 1
        ELSE agents[id] = task["t1"].all_agents[id]
    /\ \A i \in PassEvents :
        published[i].type = "AgentDisconnected" /\ published[i].agent_id \in D
    /\ task["t1"].cleaned = Cardinality(D)

PassFailed ==
    /\ task["t1"].pc = "idle"
    /\ task["t1"].op = "cleanup_dead_agents"
    /\ task["t1"].res \in {"Repository", "ExternalService"}

\* C16: when the update or the publish for one dead agent fails, the pass goes
\* on: every other agent that was in service and dead at that moment is
\* Offline when the call returns.
C16_PassSurvivesFailure ==
    PassFailed =>
        LET failed == Head(task["t1"].todo).id
            when == task["t1"].seen[failed]
        IN  \A id \in InService \ {failed} :
                Agent_is_dead(task["t1"].all_agents[id], task["t1"].arg, when)
                    => agents[id].status = "Offline"

\* ---- a failing publisher (SpecPublishFaulty)
\* C17: when publish_batch fails after the aggregate was persisted, the call
\* returns the error and the repository holds the aggregate the call
\* persisted, not the one it had loaded.
C17_PublishFailureKeepsWrite ==
    (task["t1"].pc = "idle" /\ task["t1"].res = "ExternalService") =>
        LET held == IF task["t1"].op \in BuildOps THEN builds
                    ELSE IF task["t1"].op \in AgentOps THEN agents
                    ELSE pipelines
        IN  /\ task["t1"].id \in DOMAIN held
            /\ held[task["t1"].id] = task["t1"].local

C17_Witness ==
    /\ task["t1"].pc = "idle"
    /\ task["t1"].res = "ExternalService"
    /\ task["t1"].op = "start_build"
    /\ builds[task["t1"].id].status = "Running"

\* ---- draining the event buffer (SpecDrain)
\* The event buffer of the aggregate that is drained, and its last call.
LiveEvents ==
    CASE taken.of = "Agent" -> agent.events
      [] taken.of = "Build" -> build.events
      [] taken.of = "Pipeline" -> pipeline.events
      [] taken.of = "Project" -> project.events
      [] taken.of = "User" -> user.events
      [] OTHER -> << >>

LiveCall ==
    CASE taken.of = "Agent" -> agentCall
      [] taken.of = "Build" -> buildCall
      [] taken.of = "Pipeline" -> pipelineCall
      [] taken.of = "Project" -> projectCall
      [] taken.of = "User" -> userCall
      [] OTHER -> IdleCall

RECURSIVE Concat(_)
Concat(ss) == IF ss = << >> THEN << >> ELSE Head(ss) \o Concat(Tail(ss))

\* Every event the aggregate has appended is, once and in append order, in what
\* the take_events() calls returned followed by what the buffer holds.
DrainedOnce ==
    LET all == Concat(taken.log) \o LiveEvents
    IN  /\ Len(all) = evseq
        /\ \A i \in 1..Len(all) : all[i].uid = i - 1

\* A take_events() call returns the buffer as it was and leaves it empty; right
\* after another take_events() it returns the empty list.
TakeReturnsBuffer ==
    taken'.log # taken.log =>
        /\ taken'.log = Append(taken.log, LiveEvents)
        /\ LiveEvents' = << >>
        /\ LiveCall.op = "take_events" => taken'.log[Len(taken'.log)] = << >>

\* C18: for each of Pipeline, Build, Agent, Project and User, take_events()
\* returns all buffered events in append order and leaves the buffer empty; a
\* second take_events() with no mutation in between returns the empty list, and
\* no event is returned twice from one buffer.
C18_DrainIdempotent == []DrainedOnce /\ [][TakeReturnsBuffer]_vars

C18_Witness ==
    /\ Len(taken.log) >= 2
    /\ Len(taken.log[1]) >= 2
    /\ taken.log[2] = << >>
    /\ LiveCall.op = "take_events"

\* ---- the Job entity (SpecJob)
\* The call made by this step was `op`, and it returned Ok.
JobOk == jobCall'.res = "Ok"

\* C19: queue() succeeds exactly from Pending and gives Queued; start(agent)
\* succeeds exactly from Queued, gives Running and adds 1 to attempt;
\* succeed(code) and fail(code) succeed exactly from Running and record the
\* exit code and the completion time; a failed call leaves the job as it was.
C19_QueueStartFinishContract ==
    [][/\ jobCall'.op = "queue" =>
            /\ JobOk <=> job.status = "Pending"
            /\ JobOk => job'.status = "Queued" /\ job'.attempt = job.attempt
       /\ jobCall'.op = "start" =>
            /\ JobOk <=> job.status = "Queued"
            /\ JobOk => /\ job'.status = "Running"
                        /\ job'.attempt = job.attempt + 1
                        /\ job'.agent_id = Some(jobCall'.arg)
                        /\ job'.started_at = Some(now')
       /\ jobCall'.op \in {"succeed", "fail"} =>
            /\ JobOk <=> job.status = "Running"
            /\ JobOk => /\ job'.status = IF jobCall'.op = "succeed" THEN "Success"
                                          ELSE "Failed"
                        /\ job'.exit_code = Some(jobCall'.arg)
                        /\ job'.completed_at = Some(now')
                        /\ job'.attempt = job.attempt
       /\ (jobCall'.op \in {"queue", "start", "succeed", "fail"} /\ ~JobOk) =>
            job' = job
      ]_vars

C19_Witness ==
    /\ jobCall.op = "fail"
    /\ jobCall.res = "Ok"
    /\ job.status = "Failed"
    /\ job.attempt = 2
    /\ job.exit_code = Some(1)

\* C20: cancel() and skip() succeed only from Pending or Queued; from Running,
\* Success, Failed, Cancelled or Skipped they fail and leave the job unchanged.
C20_CancelSkipOnlyBeforeRunning ==
    [][jobCall'.op \in {"cancel", "skip"} =>
            /\ JobOk <=> job.status \in {"Pending", "Queued"}
            /\ JobOk => job'.status = IF jobCall'.op = "cancel" THEN "Cancelled"
                                      ELSE "Skipped"
            /\ ~JobOk => job' = job
      ]_vars

\* C21: can_retry() is true iff the job is Failed and attempt < retry + 1;
\* retry_job() succeeds exactly then, gives Queued, clears started_at,
\* completed_at, exit_code and logs and keeps attempt; otherwise it fails and
\* leaves the job as it was.
C21_RetryContract ==
    [][jobCall'.op = "retry_job" =>
            /\ Job_can_retry(job) <=> (job.status = "Failed" /\ job.attempt <= job.retry)
            /\ JobOk <=> (job.status = "Failed" /\ job.attempt <= job.retry)
            /\ JobOk => /\ job'.status = "Queued"
                        /\ job'.started_at = None
                        /\ job'.completed_at = None
                        /\ job'.exit_code = None
                        /\ job'.logs = ""
                        /\ job'.attempt = job.attempt
                        /\ job'.retry = job.retry
            /\ ~JobOk => job' = job
      ]_vars

C21_Witness ==
    /\ jobCall.op = "retry_job"
    /\ jobCall.res = "Ok"
    /\ job.status = "Queued"
    /\ job.attempt = 1
    /\ job.retry = 1

\* ---- the runtime Stage entity (SpecStage)
StageOk == stageCall'.res = "Ok"

\* C22: start() succeeds only from Pending, succeed() and fail() only from
\* Running, skip() only from Pending, cancel() only from Pending or Running; a
\* rejected call leaves status and timestamps unchanged, and no call changes
\* the status of a stage that is Success, Failed or Cancelled.
C22_StageMirrorsBuild ==
    [][/\ stageCall'.op = "start" => (StageOk <=> runStage.status = "Pending")
       /\ stageCall'.op \in {"succeed", "fail"} => (StageOk <=> runStage.status = "Running")
       /\ stageCall'.op = "skip" => (StageOk <=> runStage.status = "Pending")
       /\ stageCall'.op = "cancel" => (StageOk <=> runStage.status \in {"Pending", "Running"})
       /\ ~StageOk => runStage' = runStage
       /\ runStage.status \in {"Success", "Failed", "Cancelled"} =>
            runStage'.status = runStage.status
      ]_vars

\* ---- the Pipeline entity (SpecPipeline)
\* The PipelineConfigUpdated events of the pipeline, in append order.
ConfigUpdates == SelectSeq(pipeline.events, LAMBDA e : e.type = "PipelineConfigUpdated")

\* The version is 1 plus the number of updates, and the k-th update event
\* carries the versions k and k + 1.
VersionCountsUpdates ==
    /\ pipeline.version = 1 + Len(ConfigUpdates)
    /\ \A k \in 1..Len(ConfigUpdates) :
        /\ ConfigUpdates[k].new_version = k + 1
        /\ ConfigUpdates[k].old_version = k

\* A successful update_config adds exactly 1; nothing else changes the version.
VersionStep ==
    IF pipelineCall'.op = "update_config" /\ pipelineCall'.res = "Ok"
    THEN pipeline'.version = pipeline.version + 1
    ELSE pipeline'.version = pipeline.version

\* C23: a pipeline's version starts at 1, grows by exactly 1 on every
\* successful update_config and is changed by nothing else; every
\* PipelineConfigUpdated event carries the version after its update as
\* new_version and new_version - 1 as old_version.
C23_VersionCountsUpdates == []VersionCountsUpdates /\ [][VersionStep]_vars

C23_Witness ==
    /\ pipeline.version = 2
    /\ Len(ConfigUpdates) = 1
    /\ pipelineCall.op \in {"add_tag", "set_environment_variable", "disable"}
    /\ ~pipeline.enabled
    /\ Len(pipeline.tags) = 1

\* ---- the Build entity (SpecBuild)
\* C24: duration() is defined exactly when started_at and completed_at are
\* both set, and then it is completed_at - started_at and not negative; it is
\* undefined while the build is Pending or Running and for a build cancelled
\* while Pending, and defined once a started build has succeeded, failed or
\* been cancelled.
C24_DurationDefinedWhenFinished ==
    LET d == Build_duration(build) IN
    /\ d # None <=> (build.started_at # None /\ build.completed_at # None)
    /\ \A s \in build.started_at, e \in build.completed_at : d = Some(e - s) /\ e - s >= 0
    /\ build.status \in {"Pending", "Running"} => d = None
    /\ build.status \in {"Success", "Failed"} => d # None
    /\ build.status = "Cancelled" => (d # None <=> build.started_at # None)

C24_Witness ==
    /\ build.status = "Cancelled"
    /\ build.started_at = Some(1)
    /\ Build_duration(build) = Some(1)

\* ---- the Agent entity (SpecAgent)
\* The positions of the AgentRegistered events among the agent's events.
Registrations == {i \in 1..Len(agent.events) : agent.events[i].type = "AgentRegistered"}

\* register() and heartbeat() succeed, stamp the heartbeat and append no event;
\* register() sets Online and heartbeat() keeps the status.
RegisterHeartbeatStep ==
    /\ agentCall'.op = "register" =>
        /\ agentCall'.res = "Ok"
        /\ agent'.status = "Online"
        /\ agent'.last_heartbeat = now'
        /\ agent'.events = agent.events
    /\ agentCall'.op = "heartbeat" =>
        /\ agentCall'.res = "Ok"
        /\ agent'.last_heartbeat = now'
        /\ agent'.status = agent.status
        /\ agent'.events = agent.events

\* C25: register(ip) succeeds from every status, sets Online, stamps the
\* heartbeat and emits nothing; heartbeat() emits nothing; AgentRegistered is
\* among the agent's events exactly once, as the first one.
C25_RegisteredOnceAtConstruction ==
    [](Registrations = {1}) /\ [][RegisterHeartbeatStep]_vars

C25_Witness ==
    /\ agentCall.op = "register"
    /\ agent.status = "Online"
    /\ agent.current_jobs = agent.max_concurrent_jobs
    /\ Len(agent.events) >= 2

\* ---- agent names (SpecSeq)
\* Some stored agent holds the name.
NameHeld(name) == \E id \in DOMAIN agents : agents[id].name = name

UniqueAgentNames ==
    \A i, j \in DOMAIN agents : agents[i].name = agents[j].name => i = j

\* A register_agent call is answered with Conflict, at once, exactly when the
\* name is held; it has then stored and published nothing.
RegisterConflictStep ==
    (calls' = calls + 1 /\ task'["t1"].op = "register_agent") =>
        /\ NameHeld(task'["t1"].arg) <=>
                (task'["t1"].pc = "idle" /\ task'["t1"].res = "Conflict")
        /\ NameHeld(task'["t1"].arg) => (agents' = agents /\ published' = published)
        /\ ~NameHeld(task'["t1"].arg) => task'["t1"].pc = "persist"

\* C26: register_agent with a name that a stored agent holds returns Conflict,
\* stores no agent and publishes no event; with calls made one at a time no
\* two stored agents share a name.
C26_DuplicateNameConflict == []UniqueAgentNames /\ [][RegisterConflictStep]_vars

C26_Witness ==
    /\ task["t1"].pc = "idle"
    /\ task["t1"].op = "register_agent"
    /\ task["t1"].res = "Conflict"
    /\ Cardinality(DOMAIN agents) = 2

\* ---- agent labels (SpecLabels)
\* The label map holds exactly `value` under `key`.
Holds(a, key, value) == \E k \in DOMAIN a.labels : k = key /\ a.labels[k] = value

\* has_label on the agent driven directly, and what add_label and
\* remove_label have just done to it
HasLabelExact ==
    /\ \A kv \in LabelPairs :
            Agent_has_label(agent, kv[1], kv[2]) <=> Holds(agent, kv[1], kv[2])
    /\ agentCall.op = "add_label" =>
            \A v \in LabelValues :
                Agent_has_label(agent, agentCall.arg[1], v) <=> v = agentCall.arg[2]
    /\ agentCall.op = "remove_label" =>
            \A v \in LabelValues : ~Agent_has_label(agent, agentCall.arg, v)

\* the answer of the last find_by_labels request
FindByLabelsExact ==
    task["t1"].op = "find_by_labels" =>
        LET labels == task["t1"].arg
            wanted == {id \in DOMAIN agents :
                          \A n \in 1..Len(labels) : Holds(agents[id], labels[n][1], labels[n][2])}
        IN  /\ task["t1"].local = {agents[id] : id \in wanted}
            /\ labels = << >> => task["t1"].local = {agents[id] : id \in DOMAIN agents}

\* C27: has_label(k, v) is true iff the label map holds exactly v under k, and
\* find_by_labels(pairs) returns exactly the stored agents that hold every
\* requested pair, which is every stored agent when no pair is requested.
C27_LabelsExactConjunctive == HasLabelExact /\ FindByLabelsExact

C27_Witness ==
    /\ task["t1"].op = "find_by_labels"
    /\ Len(task["t1"].arg) = 2
    /\ task["t1"].arg[1][1] # task["t1"].arg[2][1]
    /\ Cardinality(DOMAIN agents) = 2
    /\ Cardinality(task["t1"].local) = 1
    /\ \E id \in DOMAIN agents :
            /\ agents[id] \notin task["t1"].local
            /\ task["t1"].arg[1][1] \in DOMAIN agents[id].labels
    /\ agentCall.op = "add_label"

\* ---- the event publisher (SpecPublisher)
\* What the calls so far handed to the publisher, call by call.
HandedSoFar == IF task["t1"].local = NoAgg THEN << >> ELSE task["t1"].local.handed

\* C28: after any sequence of publish(e) and publish_batch(es) calls the
\* publisher's log is the inputs in call order, each batch in its own order; a
\* publish_batch of the empty list succeeds and leaves the log as it is.
C28_PublisherKeepsOrder ==
    /\ published = Concat(HandedSoFar)
    /\ task["t1"].op \in {"publish", "publish_batch"} => task["t1"].res = "Ok"

C28_Witness ==
    /\ Len(HandedSoFar) = 3
    /\ HandedSoFar[2] = << >>
    /\ Len(HandedSoFar[3]) = 2
    /\ HandedSoFar[3][1] # HandedSoFar[3][2]
    /\ HandedSoFar[1] # << >>
    /\ task["t1"].op = "publish_batch"

\* ---- the Pipeline entity: enable and disable (SpecPipeline)
\* The PipelineDisabled and PipelineEnabled events of the pipeline, in append order.
Toggles ==
    SelectSeq(pipeline.events, LAMBDA e : e.type \in {"PipelineDisabled", "PipelineEnabled"})

\* Disabled, Enabled, Disabled, ...
TogglesAlternate ==
    \A k \in 1..Len(Toggles) :
        Toggles[k].type = IF k % 2 = 1 THEN "PipelineDisabled" ELSE "PipelineEnabled"

\* enable() on an enabled and disable() on a disabled pipeline change nothing;
\* otherwise the call flips the flag and appends exactly its own event.
ToggleStep ==
    /\ pipelineCall'.op = "enable" =>
            IF pipeline.enabled
            THEN pipeline' = pipeline
            ELSE /\ pipeline'.enabled
                 /\ Len(pipeline'.events) = Len(pipeline.events) + 1
                 /\ pipeline'.events[Len(pipeline'.events)].type = "PipelineEnabled"
    /\ pipelineCall'.op = "disable" =>
            IF ~pipeline.enabled
            THEN pipeline' = pipeline
            ELSE /\ ~pipeline'.enabled
                 /\ Len(pipeline'.events) = Len(pipeline.events) + 1
                 /\ pipeline'.events[Len(pipeline'.events)].type = "PipelineDisabled"

\* C29: enable() and disable() are idempotent and emit an event only on an
\* actual change, so the PipelineDisabled and PipelineEnabled events of one
\* pipeline strictly alternate, starting with PipelineDisabled.
C29_TogglesAlternate == []TogglesAlternate /\ [][ToggleStep]_vars

C29_Witness ==
    /\ Len(Toggles) = 3
    /\ pipelineCall.op = "disable"
    /\ ~pipeline.enabled

\* ---- tasks working on their own aggregates (SpecOwn)
\* Every task has returned from its last call, assign_job.
AllDone == \A t \in Tasks : task[t].pc = "idle" /\ task[t].op = "assign_job"

\* The ids of the builds the tasks created, from their BuildCreated events.
CreatedIds ==
    {published[i].build_id : i \in {j \in 1..Len(published) : published[j].type = "BuildCreated"}}

\* C30: tasks that each run create_build, start_build on their own new build
\* and assign_job on their own agent with spare capacity do not interfere:
\* every call returns Ok under every interleaving, no task is ever stuck, and
\* afterwards exactly the builds they created are stored, all of them Running.
C30_OwnAggregatesDoNotInterfere ==
    /\ \A t \in Tasks : task[t].pc = "idle" /\ task[t].op # "none" => task[t].res = "Ok"
    /\ ~AllDone => ENABLED NextOwn
    /\ AllDone =>
        /\ DOMAIN builds = CreatedIds
        /\ Cardinality(DOMAIN builds) = Cardinality(Tasks)
        /\ Cardinality(find_running(builds)) = Cardinality(Tasks)
        /\ \A t \in Tasks :
            /\ \E id \in DOMAIN builds : builds[id].agent_id = Some(OwnAgent(t))
            /\ agents[OwnAgent(t)].current_jobs = assigned[OwnAgent(t)]

C30_Witness ==
    /\ AllDone
    /\ Cardinality(find_running(builds)) = 2
    /\ \E i, j \in DOMAIN builds : i # j /\ builds[i].number = builds[j].number
                                          /\ builds[i].pipeline_id = builds[j].pipeline_id

\* ---- the Workspace entity (SpecWorkspace)
\* the steps of the lifecycle Initializing -> Ready -> InUse -> CleaningUp -> Cleaned
LifecycleNext ==
    {<<"Initializing", "Ready">>, <<"Ready", "InUse">>, <<"InUse", "CleaningUp">>,
     <<"CleaningUp", "Cleaned">>}

WorkspaceOk == workspaceCall'.res = "Ok"

WorkspaceLifecycleStep ==
    /\ workspace'.status # workspace.status =>
            \/ <<workspace.status, workspace'.status>> \in LifecycleNext
            \/ workspace'.status = "Error"
    /\ workspaceCall'.op = "mark_ready" /\ WorkspaceOk => workspace.status = "Initializing"
    /\ workspaceCall'.op = "mark_in_use" /\ WorkspaceOk => workspace.status = "Ready"
    /\ workspaceCall'.op = "start_cleanup" /\ WorkspaceOk => workspace.status = "InUse"
    /\ workspaceCall'.op = "mark_cleaned" /\ WorkspaceOk => workspace.status = "CleaningUp"
    /\ ~WorkspaceOk => workspace' = workspace

\* C31: a Workspace's status only moves along Initializing -> Ready -> InUse ->
\* CleaningUp -> Cleaned, or to Error from any state: mark_ready succeeds only
\* from Initializing, mark_in_use only from Ready, start_cleanup only from
\* InUse, mark_cleaned only from CleaningUp, and a rejected call leaves the
\* workspace unchanged.
C31_WorkspaceLifecycle == [][WorkspaceLifecycleStep]_vars

TerminalStatuses == {"Success", "Failed", "Cancelled"}

StoredTerminalStays ==
    \A id \in DOMAIN builds :
        builds[id].status \in TerminalStatuses =>
            id \in DOMAIN builds' /\ builds'[id].status = builds[id].status

\* C33: once the stored status of a build is Success, Failed or Cancelled, no
\* later repository state shows a different status for that build, under every
\* interleaving of concurrent start_build, complete_build, fail_build and
\* cancel_build calls on it.
C33_StoredTerminalStable == [][StoredTerminalStays]_vars

\* The places in the publisher's log of the BuildStarted events of a build.
StartedPublished(id) ==
    {i \in 1..Len(published) :
        published[i].type = "BuildStarted" /\ published[i].build_id = id}

\* The tasks whose last call was a start_build of the build that returned Ok.
StartedOk(id) ==
    {t \in Tasks : /\ task[t].pc = "idle"
                    /\ task[t].op = "start_build"
                    /\ task[t].id = id
                    /\ task[t].res = "Ok"}

\* C34: a build is started at most once: at most one start_build call on it
\* returns success and at most one BuildStarted event is published for it,
\* also when two start_build calls naming different agents interleave.
C34_StartedAtMostOnce ==
    \A id \in BuildIds :
        /\ Cardinality(StartedOk(id)) <= 1
        /\ Cardinality(StartedPublished(id)) <= 1

\* The same with the events counted as objects, however often each is published:
\* two interleaved start_build calls violate this one too.
OneStartedEventObject ==
    \A id \in BuildIds :
        Cardinality({published[i].uid : i \in StartedPublished(id)}) <= 1

OutOfService == agent.status \in {"Offline", "Maintenance"}

OutOfServiceStep ==
    OutOfService /\ agentCall'.op \in {"heartbeat", "assign_job", "release_job"} =>
        /\ ~Agent_can_accept_job(agent')
        /\ agentCall'.op = "assign_job" => agentCall'.res # "Ok"

BuildEventTypes == [i \in 1..Len(build.events) |-> build.events[i].type]

TerminalEvents == {"BuildCompleted", "BuildCancelled"}

\* C37: over any sequence of start, succeed, fail and cancel calls on one
\* Build the events it emits are BuildCreated first, then at most one
\* BuildStarted, then at most one terminal event (BuildCompleted or
\* BuildCancelled); BuildCompleted is never emitted without an earlier
\* BuildStarted, and no event follows a terminal event.
C37_BuildEventOrder ==
    LET ts == BuildEventTypes
        n == Len(ts)
    IN  /\ n >= 1 /\ ts[1] = "BuildCreated"
        /\ \A i \in 2..n : ts[i] # "BuildCreated"
        /\ Cardinality({i \in 1..n : ts[i] = "BuildStarted"}) <= 1
        /\ Cardinality({i \in 1..n : ts[i] \in TerminalEvents}) <= 1
        /\ \A i \in 1..n : ts[i] = "BuildCompleted" =>
                \E j \in 1..(i - 1) : ts[j] = "BuildStarted"
        /\ \A i \in 1..n : ts[i] \in TerminalEvents => i = n

\* ---- the Job entity: bounded attempts (SpecJob)
AttemptsWithinBudget == job.attempt <= job.retry + 1

\* a step that is not a successful start() or retry_job()
NoStartNoRetry == ~(jobCall'.op \in {"start", "retry_job"} /\ jobCall'.res = "Ok")

\* C38: for a Job with a fixed retry budget r, attempt <= r + 1 holds in every
\* reachable state (attempt counts the successful start() calls), the budget
\* is never changed, and every sequence of calls reaches a point after which
\* neither start() nor retry_job() succeeds any more.
C38_BoundedAttempts ==
    /\ []AttemptsWithinBudget
    /\ [][job'.retry = job.retry]_vars
    /\ [][job'.attempt = job.attempt + (IF jobCall'.op = "start" /\ jobCall'.res = "Ok"
                                        THEN 1 ELSE 0)]_vars
    /\ <>[][NoStartNoRetry]_vars

C38_Witness ==
    /\ job.retry = MaxRetry
    /\ job.attempt = job.retry + 1
    /\ job.status = "Failed"
    /\ jobCall.op = "retry_job"
    /\ jobCall.res # "Ok"

\* ---- concurrent calls on one pipeline (SpecPipeConc)
\* PipelineId::new() never hands out an id twice, so an id that is absent from
\* the repository after it was handed out and stored is the id of a deleted
\* pipeline; it stays deleted if no step stores a pipeline under it again.
Stored(id) == id \in DOMAIN pipelines

\* the task is about to store the pipeline it has just constructed under id
Creating(t, id) ==
    task[t].pc = "persist" /\ task[t].op = "create_pipeline" /\ task[t].id = id

DeletedStaysDeleted ==
    \A id \in PipelineIds :
        /\ ~Stored(id) /\ Stored(id)' => \E t \in Tasks : Creating(t, id)
        /\ \A t \in Tasks :
                (task'[t] # task[t] /\ task'[t].op = "get_pipeline" /\ task'[t].id = id
                    /\ ~Stored(id)) => task'[t].res = "NotFound"

\* C39: after delete_pipeline returns success for an id, get_pipeline for that
\* id returns NotFound in every later state, also when an enable_pipeline,
\* disable_pipeline or update_config call on the same id loaded the pipeline
\* before the delete and persists it after the delete.
C39_DeletedStaysDeleted == [][DeletedStaysDeleted]_vars

\* ---- the reaper against concurrent calls on one agent (SpecStored)
\* the agents the step of the reaper t stores
ReaperWrites(t) ==
    IF task[t].op = "cleanup_dead_agents" /\ task[t].pc = "reap"
            /\ task'[t].pc = "reap_publish"
    THEN {id \in DOMAIN agents' : id \notin DOMAIN agents \/ agents'[id] # agents[id]}
    ELSE {}

\* The record the reaper stores is Offline; the record it replaces had its
\* last heartbeat more than the timeout ago at the time of the write.
ReaperWritesOverDead(t) ==
    \A id \in ReaperWrites(t) :
        id \in DOMAIN agents => Agent_is_dead(agents[id], task[t].arg, now)

\* A current_jobs that differs from the one of the find_all snapshot was
\* stored after the snapshot; the reaper's write leaves it in place.
ReaperKeepsJobs(t) ==
    \A id \in ReaperWrites(t) :
        id \in DOMAIN agents => agents'[id].current_jobs = agents[id].current_jobs

ReaperStepKeepsUpdates ==
    \A t \in Tasks : ReaperWritesOverDead(t) /\ ReaperKeepsJobs(t)

\* C40: cleanup_dead_agents(t) running beside heartbeat or assign_job on the
\* same agent never stores Offline over a record whose last heartbeat is
\* within t seconds at the moment of the write, and never puts current_jobs
\* back to what it was before a change stored after the find_all snapshot.
C40_ReaperKeepsConcurrentUpdates == [][ReaperStepKeepsUpdates]_vars

\* the two halves of C40 apart
C40_ReaperWritesOverDeadOnly == [][\A t \in Tasks : ReaperWritesOverDead(t)]_vars

C40_ReaperKeepsCurrentJobs == [][\A t \in Tasks : ReaperKeepsJobs(t)]_vars

====
